---- MODULE Spec2Model ----
(***************************************************************************)
(* Bus-Transport-Project: the availability server (src/unnamed/part_001),  *)
(* its geometric helpers, and the client-side route map                    *)
(* (src/unnamed/part_000).                                                 *)
(*                                                                         *)
(* Lengths are in units of 100 m on a planar grid, so that the default     *)
(* search radius of 1.5 km is 15 and squared distances stay small.         *)
(* geolib's getDistance / getDistanceFromLine are modelled by squared      *)
(* planar distances, following the library's law-of-cosines algorithm.     *)
(***************************************************************************)
EXTENDS Integers, Sequences, FiniteSets, TLC

\* ---------------------------------------------------------------- bounds
GridMax == 2         \* lat/lng take the values 0, GridStep, .., GridMax*GridStep
MaxPathLen == 3      \* longest path handed to isPathIntersectsCircle
MaxRadius == 2       \* radii 0, GridStep, .., MaxRadius*GridStep
NumBuses == 2        \* buses in the store
MaxStops == 3        \* rows in the Stop table
NumRequests == 2     \* availability requests in flight
NumAdminRequests == 2  \* requests to admin-protected endpoints
MaxLogins == 2       \* admin tokens issued
MaxTime == 3         \* hours that pass
MaxRows == 3         \* Stop rows of the bus a routes request reads
MaxOrder == 2        \* largest `order` value of a Stop row
NumPuts == 2         \* concurrent stop-replacement requests on one bus
MaxPayload == 2      \* longest morningStops / eveningStops array of a request
MaxFixes == 3        \* positions the browser reports after one click
NumCallers == 3      \* the morning map, the evening map and showRouteOnMap
MaxCalls == 5        \* calls of loadGoogleMapsApi in all

\* SEARCH_RADIUS_KM || "1.5", in units of 100 m
SEARCH_RADIUS_HM == 15
GridStep == SEARCH_RADIUS_HM

Axis == {k * GridStep : k \in 0..GridMax}
Coords == [lat : Axis, lng : Axis]
Radii == {k * GridStep : k \in 0..MaxRadius}

SeqsUpTo(S, n) == UNION {[1..k -> S] : k \in 0..n}

BusIds == 1..NumBuses
Periods == {"MORNING", "EVENING"}

VARIABLES
  userLocation,   \* the circle's center (isPathIntersectsCircle, findNearbyBuses)
  radiusMeters,   \* the radius
  path,           \* isPathIntersectsCircle: the path
  ipcResult,      \* "none" before the call, then "true" / "false"
  stops,          \* the Stop table: stops[b] is the set of stop rows of bus b
  results,        \* findNearbyBuses: the returned list of bus ids
  fnbPc,          \* findNearbyBuses: "idle" | "done"
  grmStops,       \* generateRouteMap: routeData.stops, each "lat,lng" as <<lat, lng>>
  grmPc,          \* "start" | "loading" | "routing" | "done"
  mapsApi,        \* the Maps JS API: "absent" | "loaded" | "failed"
  grmRequest,     \* the request handed to DirectionsService.route, or "none"
  grmProvider,    \* what the directions provider did: "none" | "ok" |
                  \*   "not_ok" | "no_result" | "api_failed"
  grmShown,       \* the map canvas: "nothing" | "placeholder" | "directions" | "polyline"
  grmPolyline,    \* the path of the fallback polyline (<< >> when none is drawn)
  grmReturned,    \* generateRouteMap's promise has settled
  grmRaised,      \* ... and settled as rejected
  sromPc,         \* showRouteOnMap: "start" | "routed" | "done"
  sromRequest,    \* the request handed to directionsService.route, or "none"
  apiKey,         \* GOOGLE_MAPS_API_KEY is set
  req,            \* req[r]: the state of availability request r
  upstreamCalls,  \* upstreamCalls[name]: https.get calls to the geocoder for name
  geoFailed,      \* the names for which a geocoder call has failed
  availabilityLog, \* the AvailabilityLog table, in insertion order
  sjBus,          \* server.js: sjBus[b] is the capacity and occupancy of bus b
  sjReq,          \* server.js: sjReq[r] is the state of availability request r
  sjLog,          \* server.js: the AvailabilityLog table, in insertion order
  adminEnv,       \* ADMIN_EMAIL and ADMIN_PASSWORD are set
  admins,         \* the Admin table: rows [email, password]
  issued,         \* the tokens jwt.sign has produced
  now,            \* the clock, in hours
  areq,           \* areq[r]: the state of admin request r
  rtBuses,        \* GET /api/routes: the number of Bus rows
  rtStore,        \* GET /api/routes: the bus's Stop rows, in store order
  rtPc,           \* GET /api/routes: where the handler is
  rtRoute,        \* GET /api/routes: the route object sent
  putStore,       \* PUT /admin/buses/:number: the Stop rows of the bus
  putReq,         \* PUT /admin/buses/:number: putReq[r] is the state of request r
  sessNow,        \* server.js, in-memory sessions: Date.now(), in hours
  adminSessions,  \* adminSessions: the entries [token, email, expires] of the Map
  sessCount,      \* the number of tokens createAdminToken has made
  sessLast,       \* the latest verifyAdminToken call: token, time, verdict
  sessExpired,    \* the tokens verifyAdminToken has rejected as expired
  locPc,          \* "use current location": where the click handler is
  btnDisabled,    \* the button carries the disabled attribute
  submitted,      \* the closure's submitted flag
  bestFix,        \* the closure's bestFix
  submits,        \* calls of form.requestSubmit() since the click
  sentFix,        \* the fix written to the input by the submitting call
  watching,       \* the watchPosition watch has not been cleared
  timer,          \* the 15 s setTimeout is pending
  received,       \* the fixes the browser has reported since the click
  gmPage,         \* loadGoogleMapsApi: window.google, the memo, the script elements,
                  \*   the promises made and the listeners on the script
  gmCall          \* gmCall[c]: caller c's await of loadGoogleMapsApi()

geoVars == <<userLocation, radiusMeters, path, ipcResult>>
matchVars == <<stops, results, fnbPc>>
mapVars == <<grmStops, grmPc, mapsApi, grmRequest, grmProvider, grmShown,
             grmPolyline, grmReturned, grmRaised, sromPc, sromRequest>>
srvVars == <<apiKey, req, upstreamCalls, geoFailed, availabilityLog>>
sjVars == <<sjBus, sjReq, sjLog>>
admVars == <<adminEnv, admins, issued, now, areq>>
rtVars == <<rtBuses, rtStore, rtPc, rtRoute>>
putVars == <<putStore, putReq>>
sessVars == <<sessNow, adminSessions, sessCount, sessLast, sessExpired>>
gmVars == <<gmPage, gmCall>>
locVars == <<locPc, btnDisabled, submitted, bestFix, submits, sentFix, watching, timer,
             received>>
moreVars == <<rtVars, putVars, sessVars, locVars, gmVars>>
baseVars == <<geoVars, matchVars, mapVars, srvVars, sjVars, admVars>>
vars == <<geoVars, matchVars, mapVars, srvVars, sjVars, admVars, moreVars>>

\* what the server's handlers, and what the client's map code, never touch
offServer == <<geoVars, results, fnbPc, mapVars, sjVars, admVars, moreVars>>
offClient == <<geoVars, matchVars, srvVars, sjVars, admVars, moreVars>>

\* ------------------------------------------------------------ geometry
\* geolib getDistance(a, b), squared
getDistanceSq(a, b) ==
  (a.lat - b.lat) * (a.lat - b.lat) + (a.lng - b.lng) * (a.lng - b.lng)

\* getDistance(p, center) <= radiusMeters
PointWithin(p, center, r) == getDistanceSq(p, center) <= r * r

\* getDistanceFromLine(center, a, b) <= radiusMeters.
\* geolib: d1 = |a center|, d2 = |center b|, d3 = |a b|;
\*   alpha = acos((d1^2 + d3^2 - d2^2) / (2 d1 d3)), beta likewise at b;
\*   alpha > 90deg -> d1;  beta > 90deg -> d2;  else sin(alpha) * d1.
\* A zero d1, d2 or d3 makes a quotient 0/0 = NaN, and NaN <= r is false.
\* getDistanceFromLine compared as !(d > radiusMeters): a NaN distance passes
getDistanceFromLineWithin_nanPasses(center, a, b, r) ==
  LET d1 == getDistanceSq(a, center)
      d2 == getDistanceSq(center, b)
      d3 == getDistanceSq(a, b)
      na == d1 + d3 - d2
      nb == d2 + d3 - d1
  IN  IF d1 = 0 \/ d2 = 0 \/ d3 = 0 THEN TRUE
      ELSE IF na < 0 THEN d1 <= r * r
      ELSE IF nb < 0 THEN d2 <= r * r
      ELSE 4 * d1 * d3 - na * na <= 4 * r * r * d3

getDistanceFromLineWithin(center, a, b, r) ==
  LET d1 == getDistanceSq(a, center)
      d2 == getDistanceSq(center, b)
      d3 == getDistanceSq(a, b)
      na == d1 + d3 - d2
      nb == d2 + d3 - d1
  IN  IF d1 = 0 \/ d2 = 0 \/ d3 = 0 THEN FALSE
      ELSE IF na < 0 THEN d1 <= r * r
      ELSE IF nb < 0 THEN d2 <= r * r
      ELSE 4 * d1 * d3 - na * na <= 4 * r * r * d3

\* isPathIntersectsCircle with the inclusive point test made strict
isPathIntersectsCircle_strict(center, p, r) ==
  \/ \E i \in 1..Len(p) : getDistanceSq(p[i], center) < r * r
  \/ \E i \in 1..(Len(p) - 1) : getDistanceFromLineWithin(center, p[i], p[i + 1], r)

\* isPathIntersectsCircle with the segment loop stopping one pair early
isPathIntersectsCircle_shortloop(center, p, r) ==
  \/ \E i \in 1..Len(p) : PointWithin(p[i], center, r)
  \/ \E i \in 1..(Len(p) - 2) : getDistanceFromLineWithin(center, p[i], p[i + 1], r)

\* isPathIntersectsCircle with the point loop written as path.every(...)
isPathIntersectsCircle_every(center, p, r) ==
  \/ \A i \in 1..Len(p) : PointWithin(p[i], center, r)
  \/ \E i \in 1..(Len(p) - 1) : getDistanceFromLineWithin(center, p[i], p[i + 1], r)

isPathIntersectsCircle(center, p, r) ==
  \/ \E i \in 1..Len(p) : PointWithin(p[i], center, r)
  \/ \E i \in 1..(Len(p) - 1) : getDistanceFromLineWithin(center, p[i], p[i + 1], r)

\* ------------------------------------------------------ the Stop table
\* the rows of one bus whose morning run visits m and evening run visits e,
\* numbered 1..n per period as the admin endpoints and the seed write them
StopRows(m, e) ==
  {[period |-> "MORNING", order |-> i, lat |-> m[i].lat, lng |-> m[i].lng] :
      i \in 1..Len(m)}
  \cup
  {[period |-> "EVENING", order |-> i, lat |-> e[i].lat, lng |-> e[i].lng] :
      i \in 1..Len(e)}

\* Stop tables are enumerated from the run lengths (lens[2b-1] morning and
\* lens[2b] evening stops of bus b) and one flat list of their coordinates.
RECURSIVE SumTo(_, _)
SumTo(lens, k) == IF k = 0 THEN 0 ELSE lens[k] + SumTo(lens, k - 1)

RunLengths ==
  {lens \in [1..(2 * NumBuses) -> 0..MaxStops] : SumTo(lens, 2 * NumBuses) <= MaxStops}

Run(lens, flat, k) == [i \in 1..lens[k] |-> flat[SumTo(lens, k - 1) + i]]

StopTable(lens, flat) ==
  [b \in BusIds |-> StopRows(Run(lens, flat, 2 * b - 1), Run(lens, flat, 2 * b))]

NoStops == [b \in BusIds |-> {}]

\* .sort((a, b) => a.order - b.order)
RECURSIVE SortByOrder(_)
SortByOrder(S) ==
  IF S = {} THEN << >>
  ELSE LET m == CHOOSE x \in S : \A y \in S : x.order <= y.order
       IN  <<m>> \o SortByOrder(S \ {m})

\* bus.stops.filter((s) => s.period === period).sort(...)
periodStops(rows, period) == SortByOrder({s \in rows : s.period = period})

\* checkStops(stops): some stop is within the radius
checkStops(ss, loc, r) ==
  \E i \in 1..Len(ss) : getDistanceSq(loc, ss[i]) <= r * r

BusOrder == [i \in 1..NumBuses |-> i]

\* findNearbyBuses looking at the morning stops only
findNearbyBuses_morningOnly(tbl, loc, r) ==
  SelectSeq(BusOrder,
    LAMBDA b : checkStops(periodStops(tbl[b], "MORNING"), loc, r))

\* findNearbyBuses pushing every bus that has a stop
findNearbyBuses_all(tbl, loc, r) ==
  SelectSeq(BusOrder, LAMBDA b : tbl[b] # {})

\* findNearbyBuses failing the whole batch on a bus with an empty period list
findNearbyBuses_failOnIncomplete(tbl, loc, r) ==
  IF \E b \in BusIds : tbl[b] # {} /\
        \E period \in Periods : periodStops(tbl[b], period) = << >>
  THEN << >>
  ELSE SelectSeq(BusOrder,
         LAMBDA b : \/ checkStops(periodStops(tbl[b], "MORNING"), loc, r)
                    \/ checkStops(periodStops(tbl[b], "EVENING"), loc, r))

\* findNearbyBuses with results kept outside the function: what earlier
\* requests pushed is still in it
findNearbyBuses_sharedResults(tbl, loc, r) ==
  SelectSeq(BusOrder,
    LAMBDA b : \/ checkStops(periodStops(tbl[b], "MORNING"), loc, r)
               \/ checkStops(periodStops(tbl[b], "EVENING"), loc, r)
               \/ \E q \in DOMAIN req : \E i \in 1..Len(req[q].nearby) :
                     req[q].nearby[i] = b)

\* findNearbyBuses pushing a bus once for each of its periods that matches
findNearbyBuses_perPeriod(tbl, loc, r) ==
  LET RECURSIVE upTo(_)
      upTo(n) ==
        IF n = 0 THEN << >>
        ELSE upTo(n - 1)
             \o (IF checkStops(periodStops(tbl[n], "MORNING"), loc, r) THEN <<n>> ELSE << >>)
             \o (IF checkStops(periodStops(tbl[n], "EVENING"), loc, r) THEN <<n>> ELSE << >>)
  IN  upTo(NumBuses)

\* findNearbyBuses(userLocation, radiusKm): the buses, in store order, with a
\* morning or an evening stop within the radius
findNearbyBuses(tbl, loc, r) ==
  SelectSeq(BusOrder,
    LAMBDA b : \/ checkStops(periodStops(tbl[b], "MORNING"), loc, r)
               \/ checkStops(periodStops(tbl[b], "EVENING"), loc, r))

\* what results.push({ busNumber, busName, location }) puts in the result for
\* bus b (number, name and location are those of the bus row)
resultEntry(b) == [busNumber |-> b, busName |-> b, location |-> b]

MapIdle ==
  /\ grmStops = << >>
  /\ grmPc = "start"
  /\ mapsApi = "absent"
  /\ grmRequest = "none"
  /\ grmProvider = "none"
  /\ grmShown = "nothing"
  /\ grmPolyline = << >>
  /\ grmReturned = FALSE
  /\ grmRaised = FALSE
  /\ sromPc = "start"
  /\ sromRequest = "none"

\* ------------------------------------------- POST /api/check-availability
Requests == 1..NumRequests

\* request bodies: strings are lists of lexemes (a run of digits, a word,
\* or one of " ", "-", ".", ",", "@")
Emails == { << >>, <<"a", "@", "b">>, <<"a", "@", "b", ".", "c">> }

DigitsValue == [d \in {"0", "15", "30", "91"} |->
                  CASE d = "0" -> 0 [] d = "15" -> 15 [] d = "30" -> 30 [] d = "91" -> 91]

LocationTokens ==
  { << >>,
    <<"0", ",", "0">>,
    <<" ", "30", ".", "0", ",", " ", "15", " ">>,
    <<"-", "15", ",", "30">>,
    <<"91", ",", "0">>,
    <<"0", ",", " ", "0">>,
    <<"0", " ", ",", "0">>,
    <<"0", ".", ",", "15">>,
    <<",">>,
    <<"benz">>,
    <<" ", "Benz", " ">>,
    <<"guntur">> }

\* trim + case-fold, the key the spec's GeoCache would use
Lower(w) == IF w = "Benz" THEN "benz" ELSE IF w = "Guntur" THEN "guntur" ELSE w
RECURSIVE trimEnd(_)
trimEnd(tok) ==
  IF Len(tok) > 0 /\ tok[Len(tok)] = " " THEN trimEnd(SubSeq(tok, 1, Len(tok) - 1))
  ELSE tok
RECURSIVE trimStart(_)
trimStart(tok) ==
  IF Len(tok) > 0 /\ tok[1] = " " THEN trimStart(Tail(tok)) ELSE tok
normalizeName(tok) ==
  LET kept == trimStart(trimEnd(tok))
  IN  [i \in 1..Len(kept) |-> Lower(kept[i])]

\* what the geocoding provider answers for a place it knows
GeoTruth(tok) ==
  IF normalizeName(tok) = <<"benz">> THEN [lat |-> 0, lng |-> 0]
  ELSE [lat |-> 30, lng |-> 15]

NoLocation == [lat |-> -1, lng |-> -1]

\* /^[^\s@]+@[^\s@]+\.[^\s@]+$/.test(email)
validateEmail(e) ==
  /\ \A i \in 1..Len(e) : e[i] # " "
  /\ Cardinality({i \in 1..Len(e) : e[i] = "@"}) = 1
  /\ \E i \in 2..Len(e) :
        /\ e[i] = "@"
        /\ \E j \in (i + 2)..(Len(e) - 1) : e[j] = "."

\* lat >= -90 && lat <= 90 && lng >= -180 && lng <= 180
LAT_MAX == 90
LNG_MAX == 180
validateCoordinates(loc) ==
  /\ loc.lat >= -LAT_MAX /\ loc.lat <= LAT_MAX
  /\ loc.lng >= -LNG_MAX /\ loc.lng <= LNG_MAX

\* \s* : the first position from i on that holds no whitespace
RECURSIVE skipSpaces(_, _)
skipSpaces(tok, i) ==
  IF i <= Len(tok) /\ tok[i] = " " THEN skipSpaces(tok, i + 1) ELSE i

IsDigits(x) == x \in DOMAIN DigitsValue

\* (-?\d+\.?\d*) from position i: whether it matches, where it ends, and
\* parseFloat of the match (fraction digits here are zeros)
matchNumber(tok, i) ==
  LET neg == i <= Len(tok) /\ tok[i] = "-"
      j   == IF neg THEN i + 1 ELSE i
      ok  == j <= Len(tok) /\ IsDigits(tok[j])
      k   == IF j + 1 <= Len(tok) /\ tok[j + 1] = "." THEN j + 2 ELSE j + 1
      e   == IF k > j + 1 /\ k <= Len(tok) /\ IsDigits(tok[k]) THEN k + 1 ELSE k
  IN  [ok |-> ok, next |-> e,
       value |-> IF ok THEN (IF neg THEN -DigitsValue[tok[j]] ELSE DigitsValue[tok[j]])
                 ELSE 0]

\* location.match(/^\s*(-?\d+\.?\d*),\s*(-?\d+\.?\d*)\s*$/)
matchLocation(tok) ==
  LET a  == matchNumber(tok, skipSpaces(tok, 1))
      c  == a.ok /\ a.next <= Len(tok) /\ tok[a.next] = ","
      b  == matchNumber(tok, skipSpaces(tok, a.next + 1))
      ok == c /\ b.ok /\ skipSpaces(tok, b.next) = Len(tok) + 1
  IN  [ok |-> ok,
       loc |-> IF ok THEN [lat |-> a.value, lng |-> b.value] ELSE NoLocation]

\* the store the server starts on: bus b runs along lat = (b-1)*GridStep in
\* the morning and back in the evening (prisma/seed.js: evening = reversed morning)
SeedStops ==
  [b \in BusIds |->
     LET w == [lat |-> (b - 1) * GridStep, lng |-> 0]
         e == [lat |-> (b - 1) * GridStep, lng |-> GridMax * GridStep]
     IN  StopRows(<<w, e>>, <<e, w>>)]

NewRequest ==
  [pc |-> "idle", email |-> << >>, location |-> << >>, userLocation |-> NoLocation,
   nearby |-> << >>, status |-> 0, message |-> "",
   routed |-> FALSE,   \* geocodeLocation was called for this request
   called |-> FALSE,   \* this request reached https.get
   logged |-> 0,       \* the position of this request's row in the log (0: none)
   retry |-> FALSE,    \* an earlier geocoder call for the same key had failed
   geo |-> "none"]     \* the geocoder's answer to this request: "ok" | "failed"

ServerIdle ==
  /\ apiKey = FALSE
  /\ req = [r \in Requests |-> NewRequest]
  /\ upstreamCalls = [n \in LocationTokens |-> 0]
  /\ geoFailed = {}
  /\ availabilityLog = << >>

\* server.js before its first availability request
SjNewRequest ==
  [pc |-> "idle", email |-> << >>, location |-> << >>, userCoords |-> NoLocation,
   parsed |-> FALSE,   \* userCoords is not null
   buses |-> << >>, available |-> FALSE, status |-> 0, logged |-> 0]

SjIdle ==
  /\ sjBus = [b \in BusIds |-> [capacity |-> 0, currentOccupancy |-> 0]]
  /\ sjReq = [r \in Requests |-> SjNewRequest]
  /\ sjLog = << >>

\* ------------------------------------------------ admin: tokens and guard
AdminRequests == 1..NumAdminRequests
MAIN_ADMIN == "main"
AdminEmails == {MAIN_ADMIN, "admin1", "new"}
Passwords == {"mainpw", "pw1", "wrong"}
TOKEN_TTL_H == 2

\* a token nobody has sent
NoToken == [email |-> "", exp |-> 0, sig |-> "none"]

NewAdminRequest ==
  [pc |-> "idle", endpoint |-> "", via |-> "none", token |-> NoToken,
   status |-> 0,
   at |-> 0,               \* the hour the request arrived
   handlerRan |-> FALSE,   \* next() was called
   adminEmail |-> "",      \* req.adminEmail
   dbOps |-> 0,            \* store reads and writes made for the request
   created |-> ""]         \* the email of the Admin row the request created

\* the Admin table as it stands before any request: one ordinary admin
AdminRows == {[email |-> "admin1", password |-> "pw1"]}

AdminIdle ==
  /\ adminEnv = FALSE
  /\ admins = AdminRows
  /\ issued = {}
  /\ now = 0
  /\ areq = [r \in AdminRequests |-> NewAdminRequest]

\* no route has been asked for
NoRoute == [status |-> 0,
            morningRoute |-> [from |-> "", to |-> "", stops |-> << >>],
            eveningRoute |-> [from |-> "", to |-> "", stops |-> << >>]]

RoutesIdle ==
  /\ rtBuses = 0
  /\ rtStore = << >>
  /\ rtPc = "idle"
  /\ rtRoute = NoRoute

\* a stop-replacement request before it arrives
PutRequests == 1..NumPuts
NewPut == [pc |-> "idle", morning |-> 0, evening |-> 0, next |-> 0]

\* the Stop rows a request creates: createData, in the order it is built
createData(r, morning, evening) ==
  [i \in 1..morning |-> [by |-> r, period |-> "MORNING", order |-> i]]
  \o [i \in 1..evening |-> [by |-> r, period |-> "EVENING", order |-> i]]

PutIdle ==
  /\ putStore = {}
  /\ putReq = [r \in PutRequests |-> NewPut]

\* const expires = Date.now() + 1000 * 60 * 60, in hours
SESSION_TTL_H == 1

\* no verifyAdminToken call yet
NoVerdict == [token |-> 0, at |-> 0, accepted |-> FALSE, called |-> FALSE]

SessionsIdle ==
  /\ sessNow = 0
  /\ adminSessions = {}
  /\ sessCount = 0
  /\ sessLast = NoVerdict
  /\ sessExpired = {}

\* no fix: before the first position
NoFix == [id |-> 0, accuracy |-> 0]

LocationIdle ==
  /\ locPc = "idle"
  /\ btnDisabled = FALSE
  /\ submitted = FALSE
  /\ bestFix = NoFix
  /\ submits = 0
  /\ sentFix = NoFix
  /\ watching = FALSE
  /\ timer = FALSE
  /\ received = {}

\* the page as loaded: no Maps API, googleMapsLoadPromise = null, no script
\* element with data-gmaps, no promise made
NewPage ==
  [google |-> FALSE,       \* window.google && window.google.maps
   memo |-> 0,             \* googleMapsLoadPromise: a promise, or 0 for null
   scripts |-> 0,          \* script[data-gmaps="true"] elements in the document
   script |-> "none",      \* the script element: "none" | "loading" | "loaded" | "failed"
   promises |-> << >>,     \* promises[p]: "pending" | "resolved" | "rejected"
   listeners |-> {}]       \* the promises settled by the script's load / error event

Callers == 1..NumCallers
NewCall == [pc |-> "idle", promise |-> 0]

MapsLoaderIdle ==
  /\ gmPage = NewPage
  /\ gmCall = [c \in Callers |-> NewCall]

MoreIdle == RoutesIdle /\ PutIdle /\ SessionsIdle /\ LocationIdle /\ MapsLoaderIdle

\* res.status(code).json({ success: false, message })
respond(rec, code, msg) == [rec EXCEPT !.pc = "responded", !.status = code, !.message = msg]

\* the handler without its validateCoordinates step
resolved_unchecked(rec, loc) == [rec EXCEPT !.pc = "finding", !.userLocation = loc]

\* userLocation is known: validateCoordinates, then findNearbyBuses awaits the store
resolved(rec, loc) ==
  IF validateCoordinates(loc)
  THEN [rec EXCEPT !.pc = "finding", !.userLocation = loc]
  ELSE respond([rec EXCEPT !.userLocation = loc], 400, "Invalid coordinates")

\* a geocodeLocation that remembers failures and rejects from that memory
geocodeCalls_negativeCache(name) == apiKey /\ name \notin geoFailed

\* geocodeLocation(name) reaches https.get: there is no cache in front of it
geocodeCalls(name) == apiKey

\* the handler up to its first await
Handle(r) ==
  /\ req[r].pc = "idle"
  /\ \E email \in Emails, location \in LocationTokens :
       LET rec == [req[r] EXCEPT !.email = email, !.location = location]
           m   == matchLocation(location)
       IN  IF email = << >> \/ location = << >>
           THEN /\ req' = [req EXCEPT ![r] = respond(rec, 400, "Email and location required")]
                /\ UNCHANGED upstreamCalls
           ELSE IF ~validateEmail(email)
           THEN /\ req' = [req EXCEPT ![r] = respond(rec, 400, "Invalid email format")]
                /\ UNCHANGED upstreamCalls
           ELSE IF m.ok
           THEN /\ req' = [req EXCEPT ![r] = resolved(rec, m.loc)]
                /\ UNCHANGED upstreamCalls
           ELSE IF geocodeCalls(location)
           THEN /\ req' = [req EXCEPT ![r] =
                             [rec EXCEPT !.pc = "geocoding", !.routed = TRUE, !.called = TRUE,
                                         !.retry = \E n \in geoFailed :
                                            normalizeName(n) = normalizeName(location)]]
                /\ upstreamCalls' = [upstreamCalls EXCEPT ![location] = @ + 1]
           ELSE /\ req' = [req EXCEPT ![r] =
                             respond([rec EXCEPT !.routed = TRUE, !.retry = \E n \in geoFailed :
                                        normalizeName(n) = normalizeName(location)],
                                     500, "Internal Server Error")]
                /\ UNCHANGED upstreamCalls
  /\ UNCHANGED <<apiKey, geoFailed, availabilityLog, stops, offServer>>

\* the geocoder answers OK with a result: resolve({ lat, lng })
GeocodeResolves(r) ==
  /\ req[r].pc = "geocoding"
  /\ req' = [req EXCEPT ![r] =
               resolved([req[r] EXCEPT !.geo = "ok"], GeoTruth(req[r].location))]
  /\ UNCHANGED <<apiKey, upstreamCalls, geoFailed, availabilityLog, stops, offServer>>

\* the geocoder answers another status, no result, bad JSON, or the socket
\* errors: the promise rejects and the handler's catch answers 500
GeocodeRejects(r) ==
  /\ req[r].pc = "geocoding"
  /\ req' = [req EXCEPT ![r] =
               respond([req[r] EXCEPT !.geo = "failed"], 500, "Internal Server Error")]
  /\ geoFailed' = geoFailed \cup {req[r].location}
  /\ UNCHANGED <<apiKey, upstreamCalls, availabilityLog, stops, offServer>>

\* prisma.bus.findMany answers: the loop of findNearbyBuses, then the log is awaited
FindManyReturns(r) ==
  /\ req[r].pc = "finding"
  /\ req' = [req EXCEPT ![r].pc = "logging",
                        ![r].nearby = findNearbyBuses(stops, req[r].userLocation,
                                                      SEARCH_RADIUS_HM)]
  /\ UNCHANGED <<apiKey, upstreamCalls, geoFailed, availabilityLog, stops, offServer>>

\* prisma.bus.findMany throws
FindManyThrows(r) ==
  /\ req[r].pc = "finding"
  /\ req' = [req EXCEPT ![r] = respond(req[r], 500, "Internal Server Error")]
  /\ UNCHANGED <<apiKey, upstreamCalls, geoFailed, availabilityLog, stops, offServer>>

\* a log status that does not look at the match list
logStatus_unavailable(nearby) == "UNAVAILABLE"

\* status: nearby.length > 0 ? "AVAILABLE" : "UNAVAILABLE"
logStatus(nearby) == IF Len(nearby) > 0 THEN "AVAILABLE" ELSE "UNAVAILABLE"

\* prisma.availabilityLog.create answers, then res.json(...)
LogCreated(r) ==
  /\ req[r].pc = "logging"
  /\ availabilityLog' = Append(availabilityLog,
        [email |-> req[r].email, location |-> req[r].location,
         lat |-> req[r].userLocation.lat, lng |-> req[r].userLocation.lng,
         status |-> logStatus(req[r].nearby)])
  /\ req' = [req EXCEPT ![r] =
               respond([req[r] EXCEPT !.logged = Len(availabilityLog) + 1], 200,
                       IF Len(req[r].nearby) = 0 THEN "available: false"
                       ELSE "available: true")]
  /\ UNCHANGED <<apiKey, upstreamCalls, geoFailed, stops, offServer>>

\* prisma.availabilityLog.create throws
LogCreateThrows(r) ==
  /\ req[r].pc = "logging"
  /\ req' = [req EXCEPT ![r] = respond(req[r], 500, "Internal Server Error")]
  /\ UNCHANGED <<apiKey, upstreamCalls, geoFailed, availabilityLog, stops, offServer>>

Init ==
  /\ userLocation = [lat |-> 0, lng |-> 0]
  /\ radiusMeters = SEARCH_RADIUS_HM
  /\ path = << >>
  /\ ipcResult = "none"
  /\ stops = SeedStops
  /\ results = << >>
  /\ fnbPc = "idle"
  /\ MapIdle
  /\ apiKey \in BOOLEAN
  /\ req = [r \in Requests |-> NewRequest]
  /\ upstreamCalls = [n \in LocationTokens |-> 0]
  /\ geoFailed = {}
  /\ availabilityLog = << >>
  /\ SjIdle
  /\ AdminIdle
  /\ MoreIdle

ServerStep(r) ==
  \/ Handle(r)
  \/ GeocodeResolves(r)
  \/ GeocodeRejects(r)
  \/ FindManyReturns(r)
  \/ FindManyThrows(r)
  \/ LogCreated(r)
  \/ LogCreateThrows(r)

Next == \E r \in Requests : ServerStep(r)

Spec == Init /\ [][Next]_vars

\* The event loop runs every ready continuation and the store answers every
\* query; nothing makes the geocoding provider answer.
FairSpec ==
  /\ Spec
  /\ \A r \in Requests :
       /\ WF_vars(Handle(r))
       /\ WF_vars(FindManyReturns(r) \/ FindManyThrows(r))
       /\ WF_vars(LogCreated(r) \/ LogCreateThrows(r))

\* ------------------------------------- server.js: POST /api/check-availability
offServerJs == <<geoVars, matchVars, mapVars, srvVars, admVars, moreVars>>

\* the index of the first "," of tok at or after from (Len(tok) + 1 when none)
RECURSIVE nextComma(_, _)
nextComma(tok, from) ==
  IF from > Len(tok) \/ tok[from] = "," THEN from ELSE nextComma(tok, from + 1)

\* location.split(",")[k - 1] for k = 1, 2 (location holds a comma)
splitPart(tok, k) ==
  LET c1 == nextComma(tok, 1)
      c2 == nextComma(tok, c1 + 1)
  IN  IF k = 1 THEN SubSeq(tok, 1, c1 - 1) ELSE SubSeq(tok, c1 + 1, c2 - 1)

\* Number(s.trim()): the empty string is 0, a decimal literal its value, the rest NaN
trimNumber(s) ==
  LET t == trimStart(trimEnd(s))
      m == matchNumber(t, 1)
  IN  IF t = << >> THEN [nan |-> FALSE, value |-> 0]
      ELSE IF m.ok /\ m.next = Len(t) + 1 THEN [nan |-> FALSE, value |-> m.value]
      ELSE [nan |-> TRUE, value |-> 0]

\* if (location.includes(",")) { [lat, lng] = ...; if (!isNaN(lat) && !isNaN(lng)) ... }
parseUserCoords(tok) ==
  LET lat == trimNumber(splitPart(tok, 1))
      lng == trimNumber(splitPart(tok, 2))
  IN  IF (\E i \in 1..Len(tok) : tok[i] = ",") /\ ~lat.nan /\ ~lng.nan
      THEN [ok |-> TRUE, loc |-> [lat |-> lat.value, lng |-> lng.value]]
      ELSE [ok |-> FALSE, loc |-> NoLocation]

\* the names the seed gives the stops and the buses
StopName(s) == IF s.lng = 0 THEN <<"Benz", " ", "Circle">> ELSE <<"Guntur">>
BusLocation(b) == <<"Vijayawada">>

\* s.toLowerCase()
toLowerCase(t) == [i \in 1..Len(t) |-> Lower(t[i])]

\* hay.includes(q)
includes(hay, q) ==
  \E i \in 0..(Len(hay) - Len(q)) : SubSeq(hay, i + 1, i + Len(q)) = q

\* the loop over the stops when userCoords is set: buses with a stop within the radius
matchByDistance(tbl, loc, r) ==
  SelectSeq(BusOrder, LAMBDA b : \E s \in tbl[b] : getDistanceSq(loc, s) <= r * r)

\* the loop over the stops otherwise: buses whose stop name or location holds q
matchByName(tbl, q) ==
  SelectSeq(BusOrder,
    LAMBDA b : \E s \in tbl[b] :
       \/ includes(toLowerCase(StopName(s)), q)
       \/ includes(toLowerCase(BusLocation(b)), q))

\* buses.some(b => Number(b.capacity || 0) > Number(b.currentOccupancy || 0))
someFree(buses) ==
  \E i \in 1..Len(buses) : sjBus[buses[i]].capacity > sjBus[buses[i]].currentOccupancy

\* userCoords?.latitude || null: null also for 0
orNull(parsed, v) == [null |-> ~parsed \/ v = 0, value |-> IF parsed THEN v ELSE 0]

\* the handler up to await prisma.stop.findMany
SjHandle(r) ==
  /\ sjReq[r].pc = "idle"
  /\ \E email \in Emails, location \in LocationTokens :
       LET rec == [sjReq[r] EXCEPT !.email = email, !.location = location]
           p   == parseUserCoords(location)
       IN  IF email = << >> \/ location = << >>
           THEN sjReq' = [sjReq EXCEPT ![r] = [rec EXCEPT !.pc = "responded", !.status = 400]]
           ELSE sjReq' = [sjReq EXCEPT ![r] =
                            [rec EXCEPT !.pc = "finding", !.parsed = p.ok,
                                        !.userCoords = p.loc]]
  /\ UNCHANGED <<sjBus, sjLog, offServerJs>>

\* findMany answers: the matching loop, buses and available, then the log is awaited
SjFindManyReturns(r) ==
  /\ sjReq[r].pc = "finding"
  /\ LET buses == IF sjReq[r].parsed
                  THEN matchByDistance(stops, sjReq[r].userCoords, SEARCH_RADIUS_HM)
                  ELSE matchByName(stops, toLowerCase(sjReq[r].location))
     IN  sjReq' = [sjReq EXCEPT ![r].pc = "logging", ![r].buses = buses,
                                ![r].available = someFree(buses)]
  /\ UNCHANGED <<sjBus, sjLog, offServerJs>>

\* findMany throws: the outer catch answers 500
SjFindManyThrows(r) ==
  /\ sjReq[r].pc = "finding"
  /\ sjReq' = [sjReq EXCEPT ![r].pc = "responded", ![r].status = 500]
  /\ UNCHANGED <<sjBus, sjLog, offServerJs>>

\* availabilityLog.create answers, then res.json({ success: true, available, buses })
SjLogCreated(r) ==
  /\ sjReq[r].pc = "logging"
  /\ sjLog' = Append(sjLog,
        [email |-> sjReq[r].email, location |-> sjReq[r].location,
         status |-> IF sjReq[r].available THEN "AVAILABLE" ELSE "UNAVAILABLE",
         lat |-> orNull(sjReq[r].parsed, sjReq[r].userCoords.lat),
         lng |-> orNull(sjReq[r].parsed, sjReq[r].userCoords.lng)])
  /\ sjReq' = [sjReq EXCEPT ![r].pc = "responded", ![r].status = 200,
                            ![r].logged = @ + 1]
  /\ UNCHANGED <<sjBus, offServerJs>>

\* availabilityLog.create throws: catch (_) { /* non fatal */ }, then res.json
SjLogCreateThrows(r) ==
  /\ sjReq[r].pc = "logging"
  /\ sjReq' = [sjReq EXCEPT ![r].pc = "responded", ![r].status = 200]
  /\ UNCHANGED <<sjBus, sjLog, offServerJs>>

InitServerJs ==
  /\ userLocation = [lat |-> 0, lng |-> 0]
  /\ radiusMeters = SEARCH_RADIUS_HM
  /\ path = << >>
  /\ ipcResult = "none"
  /\ stops = SeedStops
  /\ results = << >>
  /\ fnbPc = "idle"
  /\ MapIdle
  /\ ServerIdle
  /\ sjBus \in [BusIds -> {[capacity |-> 60, currentOccupancy |-> 0],
                           [capacity |-> 0, currentOccupancy |-> 0]}]
  /\ sjReq = [r \in Requests |-> SjNewRequest]
  /\ sjLog = << >>
  /\ AdminIdle
  /\ MoreIdle

NextServerJs ==
  \E r \in Requests :
    \/ SjHandle(r)
    \/ SjFindManyReturns(r)
    \/ SjFindManyThrows(r)
    \/ SjLogCreated(r)
    \/ SjLogCreateThrows(r)

SpecServerJs == InitServerJs /\ [][NextServerJs]_vars

\* ------------------------------------- admin-protected endpoints
offAdmin == <<geoVars, matchVars, mapVars, srvVars, sjVars, moreVars>>

\* the endpoints behind requireAdmin and the guard each one sits behind:
\* "query" is the requireAdmin of server.js:479 (Bearer header, else
\* req.query.token), "header" the one of part_001:67 and server.js:878
GuardOf ==
  [e \in {"GET /admin/logs", "GET /admin/requests",
          "POST /admin/requests/:email/approve",
          "POST /admin/requests/:email/reject", "GET /api/admin/buses"} |->
     IF e = "GET /api/admin/buses" THEN "header" ELSE "query"]
ProtectedEndpoints == DOMAIN GuardOf

\* jwt.verify(token, JWT_SECRET): the signature is ours and exp has not passed
jwtVerify(token) == token.sig = "good" /\ now < token.exp

\* a guard that checks the signature only
requireAdmin_noExpiry(guard, via, token) ==
  LET t == IF via = "bearer" \/ (guard = "query" /\ via = "query") THEN token ELSE NoToken
  IN  IF t = NoToken THEN [status |-> 401, next |-> FALSE, email |-> ""]
      ELSE IF t.sig # "good" THEN [status |-> 401, next |-> FALSE, email |-> ""]
      ELSE [status |-> 0, next |-> TRUE, email |-> t.email]

\* requireAdmin(req, res, next); via is how the request carries its token:
\* "bearer" in Authorization: Bearer, "basic" in another Authorization
\* scheme, "query" in ?token=, "none"
requireAdmin(guard, via, token) ==
  LET t == IF via = "bearer" \/ (guard = "query" /\ via = "query") THEN token ELSE NoToken
  IN  IF t = NoToken THEN [status |-> 401, next |-> FALSE, email |-> ""]
      ELSE IF ~jwtVerify(t) THEN [status |-> 401, next |-> FALSE, email |-> ""]
      ELSE [status |-> 0, next |-> TRUE, email |-> t.email]

\* POST /admin/login: the env admin when ADMIN_EMAIL and ADMIN_PASSWORD are
\* set, else an Admin row with that password; createAdminToken(email)
AdminLogin ==
  /\ Cardinality(issued) < MaxLogins
  /\ \E email \in AdminEmails, password \in Passwords :
       /\ IF adminEnv THEN email = MAIN_ADMIN /\ password = "mainpw"
          ELSE \E row \in admins : row.email = email /\ row.password = password
       /\ issued' = issued \cup {[email |-> email, exp |-> now + TOKEN_TTL_H, sig |-> "good"]}
  /\ UNCHANGED <<adminEnv, admins, now, areq, offAdmin>>

\* an hour passes
Tick ==
  /\ now < MaxTime
  /\ now' = now + 1
  /\ UNCHANGED <<adminEnv, admins, issued, areq, offAdmin>>

\* the tokens a client can send: none, one it was issued, one it made up
CarriedTokens ==
  issued \cup {NoToken, [email |-> MAIN_ADMIN, exp |-> now + TOKEN_TTL_H, sig |-> "forged"]}

\* a request to a protected endpoint goes through requireAdmin; on next()
\* the handler starts
AdminCall(r) ==
  /\ areq[r].pc = "idle"
  /\ \E endpoint \in ProtectedEndpoints, via \in {"none", "basic", "bearer", "query"},
        token \in CarriedTokens :
       LET g   == requireAdmin(GuardOf[endpoint], via, token)
           rec == [areq[r] EXCEPT !.endpoint = endpoint, !.via = via, !.token = token,
                                  !.at = now]
       IN  /\ via = "none" <=> token = NoToken
           /\ areq' = [areq EXCEPT ![r] =
                 IF g.next
                 THEN [rec EXCEPT !.pc = "handling", !.handlerRan = TRUE,
                                  !.adminEmail = g.email]
                 ELSE [rec EXCEPT !.pc = "responded", !.status = g.status]]
  /\ UNCHANGED <<adminEnv, admins, issued, now, offAdmin>>

\* the handler behind the guard: approve creates the Admin row (a
\* duplicate is swallowed by .catch), reject answers, the rest read the store
AdminHandle(r) ==
  /\ areq[r].pc = "handling"
  /\ \E target \in AdminEmails, storeOk \in BOOLEAN :
       CASE areq[r].endpoint = "POST /admin/requests/:email/approve" ->
              LET fresh == storeOk /\ \A row \in admins : row.email # target
              IN  /\ admins' = IF fresh
                               THEN admins \cup {[email |-> target, password |-> ""]}
                               ELSE admins
                  /\ areq' = [areq EXCEPT ![r].pc = "responded", ![r].status = 200,
                                          ![r].dbOps = @ + 1,
                                          ![r].created = IF fresh THEN target ELSE ""]
         [] areq[r].endpoint = "POST /admin/requests/:email/reject" ->
              /\ areq' = [areq EXCEPT ![r].pc = "responded", ![r].status = 200]
              /\ UNCHANGED admins
         [] areq[r].endpoint = "GET /admin/logs" ->
              /\ areq' = [areq EXCEPT ![r].pc = "responded", ![r].status = 200,
                                      ![r].dbOps = @ + 1]
              /\ UNCHANGED admins
         [] OTHER ->
              /\ areq' = [areq EXCEPT ![r].pc = "responded",
                                      ![r].status = IF storeOk THEN 200 ELSE 500,
                                      ![r].dbOps = @ + 1]
              /\ UNCHANGED admins
  /\ UNCHANGED <<adminEnv, issued, now, offAdmin>>

InitAdmin ==
  /\ userLocation = [lat |-> 0, lng |-> 0]
  /\ radiusMeters = SEARCH_RADIUS_HM
  /\ path = << >>
  /\ ipcResult = "none"
  /\ stops = SeedStops
  /\ results = << >>
  /\ fnbPc = "idle"
  /\ MapIdle
  /\ ServerIdle
  /\ SjIdle
  /\ adminEnv \in BOOLEAN
  /\ admins = AdminRows
  /\ issued = {}
  /\ now = 0
  /\ areq = [r \in AdminRequests |-> NewAdminRequest]
  /\ MoreIdle

NextAdmin ==
  \/ AdminLogin
  \/ Tick
  \/ \E r \in AdminRequests : AdminCall(r) \/ AdminHandle(r)

SpecAdmin == InitAdmin /\ [][NextAdmin]_vars

\* ------------------------------------------------- the client route map
\* stop.coords.split(',').map(Number) -> { lat, lng }
parseCoords(c) == [lat |-> c[1], lng |-> c[2]]

\* coords = stops.map(...)
stopCoords(ss) == [i \in 1..Len(ss) |-> parseCoords(ss[i])]

\* coords.slice(1): the destination stays among the waypoints
sliceInner_toEnd(cs) == [i \in 1..(Len(cs) - 1) |-> cs[i + 1]]

\* coords.slice(1, -1)
sliceInner(cs) == [i \in 1..(Len(cs) - 2) |-> cs[i + 1]]

\* the argument of svc.route
directionsRequest(cs) ==
  [origin |-> cs[1], destination |-> cs[Len(cs)], waypoints |-> sliceInner(cs),
   optimizeWaypoints |-> FALSE, provideRouteAlternatives |-> FALSE]

\* a fallback that draws the waypoints only
fallbackPath_inner(cs) == sliceInner(cs)

\* buildPolylineOptions(coords, routeData).path
fallbackPath(cs) == cs

\* a catch block that shows the placeholder and throws again
grmCatch_rethrow == [shown |-> "placeholder", raised |-> TRUE]

\* catch (err) { placeholder.style.display = 'flex'; console.error(...) }
grmCatch == [shown |-> "placeholder", raised |-> FALSE]

\* placeholder hidden, canvas prepared, then await loadGoogleMapsApi()
GrmStart ==
  /\ grmPc = "start"
  /\ grmPc' = "loading"
  /\ UNCHANGED <<grmStops, mapsApi, grmRequest, grmProvider, grmShown,
                 grmPolyline, grmReturned, grmRaised,
                 sromPc, sromRequest, offClient>>

\* script.onload
MapsApiLoads ==
  /\ grmPc = "loading"
  /\ mapsApi = "absent"
  /\ mapsApi' = "loaded"
  /\ UNCHANGED <<grmStops, grmPc, grmRequest, grmProvider, grmShown,
                 grmPolyline, grmReturned, grmRaised,
                 sromPc, sromRequest, offClient>>

\* script.onerror: loadGoogleMapsApi rejects, the await throws into the catch
MapsApiFails ==
  /\ grmPc = "loading"
  /\ mapsApi = "absent"
  /\ mapsApi' = "failed"
  /\ grmProvider' = "api_failed"
  /\ grmShown' = grmCatch.shown
  /\ grmRaised' = grmCatch.raised
  /\ grmReturned' = TRUE
  /\ grmPc' = "done"
  /\ UNCHANGED <<grmStops, grmRequest, grmPolyline,
                 sromPc, sromRequest, offClient>>

\* after the await: fewer than two stops throws into the catch
GrmTooFewStops ==
  /\ grmPc = "loading"
  /\ mapsApi = "loaded"
  /\ Len(grmStops) < 2
  /\ grmShown' = grmCatch.shown
  /\ grmRaised' = grmCatch.raised
  /\ grmReturned' = TRUE
  /\ grmPc' = "done"
  /\ UNCHANGED <<grmStops, mapsApi, grmRequest, grmProvider, grmPolyline,
                 sromPc, sromRequest, offClient>>

\* after the await: map, renderer, svc.route(...), markers; the function returns
GrmRoute ==
  /\ grmPc = "loading"
  /\ mapsApi = "loaded"
  /\ Len(grmStops) >= 2
  /\ grmRequest' = directionsRequest(stopCoords(grmStops))
  /\ grmReturned' = TRUE
  /\ grmPc' = "routing"
  /\ UNCHANGED <<grmStops, mapsApi, grmProvider, grmShown, grmPolyline, grmRaised,
                 sromPc, sromRequest, offClient>>

\* the svc.route callback: (res, status)
GrmDirectionsCallback ==
  /\ grmPc = "routing"
  /\ \E status \in {"OK", "NOT_OK"}, res \in {"result", "null"} :
       IF status = "OK" /\ res = "result"
       THEN /\ grmProvider' = "ok"
            /\ grmShown' = "directions"
            /\ grmPolyline' = grmPolyline
       ELSE /\ grmProvider' = IF status = "OK" THEN "no_result" ELSE "not_ok"
            /\ grmShown' = "polyline"
            /\ grmPolyline' = fallbackPath(stopCoords(grmStops))
  /\ grmPc' = "done"
  /\ UNCHANGED <<grmStops, mapsApi, grmRequest, grmReturned, grmRaised,
                 sromPc, sromRequest, offClient>>

\* ---- showRouteOnMap(busNumber, mapElementId, type)
\* the stops of the route as GET /api/routes/:busNumber sends them: the
\* client's "lat,lng" strings are made from these objects
routeStops(ss) ==
  [i \in 1..Len(ss) |-> [coords |-> [kind |-> "object", lat |-> ss[i][1], lng |-> ss[i][2]]]]

\* toLatLng(coords): a LatLng for an object with numeric lat and lng, else null
toLatLng(c) ==
  IF c.kind = "object"
  THEN [null |-> FALSE, lat |-> c.lat, lng |-> c.lng]
  ELSE [null |-> TRUE, lat |-> 0, lng |-> 0]

\* stops.slice(1, -1).map(s => ({ location: toLatLng(s.coords) })).filter(w => !!w.location)
sromWaypoints(ss) ==
  LET inner == sliceInner(ss)
      conv  == [i \in 1..Len(inner) |-> toLatLng(inner[i].coords)]
  IN  SelectSeq(conv, LAMBDA w : ~w.null)

\* the argument of directionsService.route
sromDirectionsRequest(ss) ==
  [origin |-> toLatLng(ss[1].coords), destination |-> toLatLng(ss[Len(ss)].coords),
   waypoints |-> sromWaypoints(ss),
   optimizeWaypoints |-> FALSE, provideRouteAlternatives |-> FALSE]

\* the Maps API is there, the route was fetched: fewer than two stops (or
\* no such route) returns, otherwise directionsService.route is called
SromRoute ==
  /\ sromPc = "start"
  /\ mapsApi = "loaded"
  /\ \E fetched \in BOOLEAN :
       IF fetched /\ Len(grmStops) >= 2
       THEN /\ sromRequest' = sromDirectionsRequest(routeStops(grmStops))
            /\ sromPc' = "routed"
       ELSE /\ sromRequest' = sromRequest
            /\ sromPc' = "done"
  /\ UNCHANGED <<grmStops, grmPc, mapsApi, grmRequest, grmProvider, grmShown,
                 grmPolyline, grmReturned, grmRaised, offClient>>

\* await loadGoogleMapsApi() rejects: catch (err) { console.error(...) }
SromApiFailed ==
  /\ sromPc = "start"
  /\ mapsApi = "failed"
  /\ sromPc' = "done"
  /\ UNCHANGED <<grmStops, grmPc, mapsApi, grmRequest, grmProvider, grmShown,
                 grmPolyline, grmReturned, grmRaised, sromRequest, offClient>>

\* the route callback: setDirections and fitBounds, or console.error
SromDirectionsCallback ==
  /\ sromPc = "routed"
  /\ sromPc' = "done"
  /\ UNCHANGED <<grmStops, grmPc, mapsApi, grmRequest, grmProvider, grmShown,
                 grmPolyline, grmReturned, grmRaised, sromRequest, offClient>>

InitRouteMap ==
  /\ userLocation = [lat |-> 0, lng |-> 0]
  /\ radiusMeters = 0
  /\ path = << >>
  /\ ipcResult = "none"
  /\ stops = NoStops
  /\ results = << >>
  /\ fnbPc = "idle"
  /\ grmStops \in SeqsUpTo(Axis \X Axis, MaxPathLen)
  /\ grmPc = "start"
  /\ mapsApi = "absent"
  /\ grmRequest = "none"
  /\ grmProvider = "none"
  /\ grmShown = "nothing"
  /\ grmPolyline = << >>
  /\ grmReturned = FALSE
  /\ grmRaised = FALSE
  /\ sromPc = "start"
  /\ sromRequest = "none"
  /\ ServerIdle
  /\ SjIdle
  /\ AdminIdle
  /\ MoreIdle

NextRouteMap ==
  \/ GrmStart
  \/ MapsApiLoads
  \/ MapsApiFails
  \/ GrmTooFewStops
  \/ GrmRoute
  \/ GrmDirectionsCallback
  \/ SromRoute
  \/ SromApiFailed
  \/ SromDirectionsCallback

SpecRouteMap == InitRouteMap /\ [][NextRouteMap]_vars

\* ------------------------------------------- isPathIntersectsCircle alone
InitIntersect ==
  /\ userLocation \in Coords
  /\ radiusMeters \in Radii
  /\ path \in SeqsUpTo(Coords, MaxPathLen)
  /\ ipcResult = "none"
  /\ stops = NoStops
  /\ results = << >>
  /\ fnbPc = "idle"
  /\ MapIdle
  /\ ServerIdle
  /\ SjIdle
  /\ AdminIdle
  /\ MoreIdle

CallIntersect ==
  /\ ipcResult = "none"
  /\ ipcResult' = IF isPathIntersectsCircle(userLocation, path, radiusMeters)
                  THEN "true" ELSE "false"
  /\ UNCHANGED <<userLocation, radiusMeters, path, matchVars, mapVars, srvVars, sjVars,
                 admVars, moreVars>>

NextIntersect == CallIntersect

SpecIntersect == InitIntersect /\ [][NextIntersect]_vars

\* ------------------------------------------------- findNearbyBuses alone
InitMatcher ==
  /\ userLocation \in Coords
  /\ radiusMeters \in Radii \ {0}
  /\ path = << >>
  /\ ipcResult = "none"
  /\ \E lens \in RunLengths :
       \E flat \in [1..SumTo(lens, 2 * NumBuses) -> Coords] :
         stops = StopTable(lens, flat)
  /\ results = << >>
  /\ fnbPc = "idle"
  /\ MapIdle
  /\ ServerIdle
  /\ SjIdle
  /\ AdminIdle
  /\ MoreIdle

CallFindNearby ==
  /\ fnbPc = "idle"
  /\ results' = findNearbyBuses(stops, userLocation, radiusMeters)
  /\ fnbPc' = "done"
  /\ UNCHANGED <<geoVars, stops, mapVars, srvVars, sjVars, admVars, moreVars>>

NextMatcher == CallFindNearby

SpecMatcher == InitMatcher /\ [][NextMatcher]_vars

\* ------------------------------------------- server.js: GET /api/routes
offRoutes == <<baseVars, putVars, sessVars, locVars, gmVars>>

\* Stop.name as PUT /api/buses/:id/stops stores it: s.name || ""
StopNames == {"", "Benz Circle", "Guntur"}
RouteRows == [name : StopNames, period : Periods, order : 0..MaxOrder]

\* .filter(s => s.period === period)
filterPeriod(rows, period) == SelectSeq(rows, LAMBDA s : s.period = period)

\* Array.prototype.sort((a,b) => a.order - b.order): ascending, and stable
insertByOrder(x, t) ==
  LET k == Cardinality({i \in 1..Len(t) : t[i].order <= x.order})
  IN  SubSeq(t, 1, k) \o <<x>> \o SubSeq(t, k + 1, Len(t))

RECURSIVE sortStable(_)
sortStable(t) ==
  IF t = << >> THEN << >>
  ELSE insertByOrder(t[Len(t)], sortStable(SubSeq(t, 1, Len(t) - 1)))

\* the period's list without the sort
routeStopsOf_unsorted(rows, period) == filterPeriod(rows, period)

\* (bus.stops || []).filter(...).sort(...)
routeStopsOf(rows, period) == sortStable(filterPeriod(rows, period))

\* list[i]?.name || "N/A"
nameOrNA(list, i) ==
  IF i \notin 1..Len(list) \/ list[i].name = "" THEN "N/A" ELSE list[i].name

\* { from, to, stops: list.map(s => ({ name, coords })) }
routeOf(list) ==
  [from |-> nameOrNA(list, 1),
   to |-> nameOrNA(list, Len(list)),
   stops |-> [i \in 1..Len(list) |-> list[i].name]]

\* findMany answers with the bus; res.json({ success: true, routes })
GetRoutes ==
  /\ rtPc = "idle"
  /\ rtBuses > 0
  /\ rtRoute' = [status |-> 200,
                 morningRoute |-> routeOf(routeStopsOf(rtStore, "MORNING")),
                 eveningRoute |-> routeOf(routeStopsOf(rtStore, "EVENING"))]
  /\ rtPc' = "responded"
  /\ UNCHANGED <<rtBuses, rtStore, offRoutes>>

\* findMany answers with no bus: 404 "No buses found"
GetRoutesEmpty ==
  /\ rtPc = "idle"
  /\ rtBuses = 0
  /\ rtRoute' = [rtRoute EXCEPT !.status = 404]
  /\ rtPc' = "responded"
  /\ UNCHANGED <<rtBuses, rtStore, offRoutes>>

\* findMany rejects: 500 "Server error"
GetRoutesThrows ==
  /\ rtPc = "idle"
  /\ rtRoute' = [rtRoute EXCEPT !.status = 500]
  /\ rtPc' = "responded"
  /\ UNCHANGED <<rtBuses, rtStore, offRoutes>>

InitRoutes ==
  /\ userLocation = [lat |-> 0, lng |-> 0]
  /\ radiusMeters = SEARCH_RADIUS_HM
  /\ path = << >>
  /\ ipcResult = "none"
  /\ stops = NoStops
  /\ results = << >>
  /\ fnbPc = "idle"
  /\ MapIdle
  /\ ServerIdle
  /\ SjIdle
  /\ AdminIdle
  /\ rtBuses \in 0..1
  /\ rtStore \in (IF rtBuses = 0 THEN {<< >>} ELSE SeqsUpTo(RouteRows, MaxRows))
  /\ rtPc = "idle"
  /\ rtRoute = NoRoute
  /\ PutIdle
  /\ SessionsIdle
  /\ LocationIdle
  /\ MapsLoaderIdle

NextRoutes ==
  \/ GetRoutes
  \/ GetRoutesEmpty
  \/ GetRoutesThrows

SpecRoutes == InitRoutes /\ [][NextRoutes]_vars

\* -------------------------------- server.js: PUT /admin/buses/:number
offPut == <<baseVars, rtVars, sessVars, locVars, gmVars>>

\* the request arrives with morningStops and eveningStops arrays; bus.update
\* has answered
PutUpdate(r) ==
  /\ putReq[r].pc = "idle"
  /\ \E morning \in 0..MaxPayload, evening \in 0..MaxPayload :
       putReq' = [putReq EXCEPT ![r] = [pc |-> "updated", morning |-> morning,
                                        evening |-> evening, next |-> 0]]
  /\ UNCHANGED <<putStore, offPut>>

\* prisma.stop.deleteMany({ where: { busId } }) has answered
PutDeleteMany(r) ==
  /\ putReq[r].pc = "updated"
  /\ putStore' = {}
  /\ putReq' = [putReq EXCEPT ![r].pc =
                  IF putReq[r].morning + putReq[r].evening > 0 THEN "deleted" ELSE "created"]
  /\ UNCHANGED offPut

\* prisma.stop.createMany({ data: createData }) has answered
PutCreateMany(r) ==
  /\ putReq[r].pc = "deleted"
  /\ LET d == createData(r, putReq[r].morning, putReq[r].evening)
     IN  putStore' = putStore \cup {d[i] : i \in 1..Len(d)}
  /\ putReq' = [putReq EXCEPT ![r].pc = "created"]
  /\ UNCHANGED offPut

\* createMany is not supported: the catch falls back to one create per row
PutCreateManyThrows(r) ==
  /\ putReq[r].pc = "deleted"
  /\ putReq' = [putReq EXCEPT ![r].pc = "fallback", ![r].next = 1]
  /\ UNCHANGED <<putStore, offPut>>

\* for (const d of createData) await prisma.stop.create({ data: d })
PutCreate(r) ==
  /\ putReq[r].pc = "fallback"
  /\ LET d == createData(r, putReq[r].morning, putReq[r].evening)
     IN  /\ putStore' = putStore \cup {d[putReq[r].next]}
         /\ putReq' = [putReq EXCEPT ![r].pc = IF putReq[r].next = Len(d)
                                               THEN "created" ELSE "fallback",
                                     ![r].next = @ + 1]
  /\ UNCHANGED offPut

\* findUnique has answered: res.json({ success: true, bus: busWithStops })
PutRespond(r) ==
  /\ putReq[r].pc = "created"
  /\ putReq' = [putReq EXCEPT ![r].pc = "responded"]
  /\ UNCHANGED <<putStore, offPut>>

InitPut ==
  /\ userLocation = [lat |-> 0, lng |-> 0]
  /\ radiusMeters = SEARCH_RADIUS_HM
  /\ path = << >>
  /\ ipcResult = "none"
  /\ stops = NoStops
  /\ results = << >>
  /\ fnbPc = "idle"
  /\ MapIdle
  /\ ServerIdle
  /\ SjIdle
  /\ AdminIdle
  /\ RoutesIdle
  /\ SessionsIdle
  /\ LocationIdle
  /\ MapsLoaderIdle
  /\ putStore = {[by |-> 0, period |-> "MORNING", order |-> 1],
                 [by |-> 0, period |-> "EVENING", order |-> 1]}
  /\ putReq = [r \in PutRequests |-> NewPut]

NextPut ==
  \E r \in PutRequests :
    \/ PutUpdate(r)
    \/ PutDeleteMany(r)
    \/ PutCreateMany(r)
    \/ PutCreateManyThrows(r)
    \/ PutCreate(r)
    \/ PutRespond(r)

SpecPut == InitPut /\ [][NextPut]_vars

\* ------------------------------- server.js: the in-memory admin sessions
offSessions == <<baseVars, rtVars, putVars, locVars, gmVars>>

\* the strings a caller can present: 0 is one that randomBytes never gives,
\* the others are the tokens createAdminToken makes, in the order it makes them
SessionTokens == 0..MaxLogins

\* adminSessions.get(token)
sessionOf(sessions, token) ==
  IF \E e \in sessions : e.token = token
  THEN {CHOOSE e \in sessions : e.token = token}
  ELSE {}

\* verifyAdminToken that leaves an expired entry in the Map
verifyAdminToken_keepsExpired(sessions, token, t) ==
  LET found == sessionOf(sessions, token)
  IN  IF found = {} THEN [ok |-> FALSE, expired |-> FALSE, sessions |-> sessions]
      ELSE IF \E e \in found : e.expires < t
      THEN [ok |-> FALSE, expired |-> TRUE, sessions |-> sessions]
      ELSE [ok |-> TRUE, expired |-> FALSE, sessions |-> sessions]

\* verifyAdminToken(token) at time t: the session or null, and the Map afterwards
verifyAdminToken(sessions, token, t) ==
  LET found == sessionOf(sessions, token)
  IN  IF found = {} THEN [ok |-> FALSE, expired |-> FALSE, sessions |-> sessions]
      ELSE IF \E e \in found : e.expires < t
      THEN [ok |-> FALSE, expired |-> TRUE, sessions |-> sessions \ found]
      ELSE [ok |-> TRUE, expired |-> FALSE, sessions |-> sessions]

\* createAdminToken(email): a fresh random token, valid for one hour
CreateAdminToken ==
  /\ sessCount < MaxLogins
  /\ sessCount' = sessCount + 1
  /\ adminSessions' = adminSessions \cup
       {[token |-> sessCount + 1, email |-> MAIN_ADMIN, expires |-> sessNow + SESSION_TTL_H]}
  /\ UNCHANGED <<sessNow, sessLast, sessExpired, offSessions>>

\* requireAdmin or /admin/me hands a presented token to verifyAdminToken
VerifyAdminToken ==
  \E token \in SessionTokens :
    LET v == verifyAdminToken(adminSessions, token, sessNow)
    IN  /\ adminSessions' = v.sessions
        /\ sessLast' = [token |-> token, at |-> sessNow, accepted |-> v.ok, called |-> TRUE]
        /\ sessExpired' = IF v.expired THEN sessExpired \cup {token} ELSE sessExpired
        /\ UNCHANGED <<sessNow, sessCount, offSessions>>

\* Date.now() moves on
SessTick ==
  /\ sessNow < MaxTime
  /\ sessNow' = sessNow + 1
  /\ UNCHANGED <<adminSessions, sessCount, sessLast, sessExpired, offSessions>>

\* the system clock is set back: Date.now() is wall-clock time
SessClockSetBack ==
  /\ sessNow > 0
  /\ sessNow' = sessNow - 1
  /\ UNCHANGED <<adminSessions, sessCount, sessLast, sessExpired, offSessions>>

InitSessions ==
  /\ userLocation = [lat |-> 0, lng |-> 0]
  /\ radiusMeters = SEARCH_RADIUS_HM
  /\ path = << >>
  /\ ipcResult = "none"
  /\ stops = NoStops
  /\ results = << >>
  /\ fnbPc = "idle"
  /\ MapIdle
  /\ ServerIdle
  /\ SjIdle
  /\ AdminIdle
  /\ RoutesIdle
  /\ PutIdle
  /\ SessionsIdle
  /\ LocationIdle
  /\ MapsLoaderIdle

NextSessions ==
  \/ CreateAdminToken
  \/ VerifyAdminToken
  \/ SessTick
  \/ SessClockSetBack

SpecSessions == InitSessions /\ [][NextSessions]_vars

\* ------------------------------- client: the "use current location" button
offLocation == <<baseVars, rtVars, putVars, sessVars, gmVars>>

targetAccuracy == 100
improveThreshold == 200
\* the accuracy taken for a fix whose coords.accuracy is not a number
Infinity == 1000
\* coords.accuracy of a reported position, in metres
Accuracies == {50, 100, 150, 200, 250, Infinity}

\* submitNow that leaves the button as it finds it
submitNow_leavesButton(st, best) ==
  IF st.submitted THEN st
  ELSE [submitted |-> TRUE, submits |-> st.submits + 1, sentFix |-> best,
        btnDisabled |-> st.btnDisabled]

\* submitNow without its submitted guard
submitNow_unguarded(st, best) ==
  [submitted |-> TRUE, submits |-> st.submits + 1, sentFix |-> best, btnDisabled |-> FALSE]

\* submitNow(): what it makes of the flag, the form, the input and the button
submitNow(st, best) ==
  IF st.submitted THEN st
  ELSE [submitted |-> TRUE, submits |-> st.submits + 1, sentFix |-> best,
        btnDisabled |-> FALSE]

SubmitState ==
  [submitted |-> submitted, submits |-> submits, sentFix |-> sentFix,
   btnDisabled |-> btnDisabled]

\* the four variables after submitNow() has run with bestFix = best
Submitting(best) ==
  LET st == submitNow(SubmitState, best)
  IN  /\ submitted' = st.submitted
      /\ submits' = st.submits
      /\ sentFix' = st.sentFix
      /\ btnDisabled' = st.btnDisabled

\* the click: without navigator.geolocation a notification and nothing else;
\* with it the button is disabled and getCurrentPosition is called
ClickUseCurrentLocation ==
  /\ locPc = "idle"
  /\ ~btnDisabled
  /\ \E supported \in BOOLEAN :
       IF supported
       THEN locPc' = "locating" /\ btnDisabled' = TRUE
       ELSE locPc' = "unsupported" /\ UNCHANGED btnDisabled
  /\ UNCHANGED <<submitted, bestFix, submits, sentFix, watching, timer, received,
                 offLocation>>

\* getCurrentPosition's success callback with a fix of accuracy a, in a
\* browser with (canWatch) or without watchPosition
PositionObtained ==
  /\ locPc = "locating"
  /\ \E a \in Accuracies, canWatch \in BOOLEAN :
       LET fix == [id |-> 1, accuracy |-> a]
       IN  /\ bestFix' = fix
           /\ received' = {fix}
           /\ IF a > improveThreshold /\ canWatch
              THEN /\ watching' = TRUE
                   /\ timer' = TRUE
                   /\ locPc' = "watching"
                   /\ UNCHANGED <<submitted, submits, sentFix, btnDisabled>>
              ELSE /\ Submitting(fix)
                   /\ locPc' = "done"
                   /\ UNCHANGED <<watching, timer>>
  /\ UNCHANGED offLocation

\* getCurrentPosition's error callback: denied, unavailable or timed out
PositionError ==
  /\ locPc = "locating"
  /\ locPc' = "failed"
  /\ btnDisabled' = FALSE
  /\ UNCHANGED <<submitted, bestFix, submits, sentFix, watching, timer, received,
                 offLocation>>

\* the watch's success callback with a fix of accuracy a (its error callback
\* does nothing)
WatchPosition ==
  /\ watching
  /\ Cardinality(received) < MaxFixes
  /\ \E a \in Accuracies :
       LET fix == [id |-> Cardinality(received) + 1, accuracy |-> a]
           best == IF a < bestFix.accuracy THEN fix ELSE bestFix
       IN  /\ received' = received \cup {fix}
           /\ bestFix' = best
           /\ IF a <= targetAccuracy
              THEN /\ watching' = FALSE
                   /\ Submitting(best)
                   /\ locPc' = "done"
              ELSE UNCHANGED <<watching, submitted, submits, sentFix, btnDisabled, locPc>>
  /\ UNCHANGED <<timer, offLocation>>

\* the 15 s timer: clearWatch, submitNow
TimerFires ==
  /\ timer
  /\ timer' = FALSE
  /\ watching' = FALSE
  /\ Submitting(bestFix)
  /\ locPc' = "done"
  /\ UNCHANGED <<bestFix, received, offLocation>>

InitLocation ==
  /\ userLocation = [lat |-> 0, lng |-> 0]
  /\ radiusMeters = SEARCH_RADIUS_HM
  /\ path = << >>
  /\ ipcResult = "none"
  /\ stops = NoStops
  /\ results = << >>
  /\ fnbPc = "idle"
  /\ MapIdle
  /\ ServerIdle
  /\ SjIdle
  /\ AdminIdle
  /\ RoutesIdle
  /\ PutIdle
  /\ SessionsIdle
  /\ LocationIdle
  /\ MapsLoaderIdle

NextLocation ==
  \/ ClickUseCurrentLocation
  \/ PositionObtained
  \/ PositionError
  \/ WatchPosition
  \/ TimerFires

SpecLocation == InitLocation /\ [][NextLocation]_vars

\* getCurrentPosition is called with timeout: 20000, so one of its callbacks
\* runs; a pending setTimeout fires. The watch owes nothing.
FairLocation ==
  /\ SpecLocation
  /\ WF_vars(PositionObtained \/ PositionError)
  /\ WF_vars(TimerFires)

\* --------------------------------------------- client: loadGoogleMapsApi
offMapsLoader == <<baseVars, rtVars, putVars, sessVars, locVars>>

\* loadGoogleMapsApi without the googleMapsLoadPromise check
loadGoogleMapsApi_noMemo(page) ==
  LET p == Len(page.promises) + 1
  IN  IF page.google
      THEN [page |-> [page EXCEPT !.promises = Append(@, "resolved")], promise |-> p]
      ELSE IF page.scripts > 0
      THEN [page |-> [page EXCEPT !.memo = p,
                                  !.promises = Append(@, "pending"),
                                  !.listeners = @ \cup {p}],
            promise |-> p]
      ELSE [page |-> [page EXCEPT !.memo = p,
                                  !.promises = Append(@, "pending"),
                                  !.listeners = @ \cup {p},
                                  !.scripts = @ + 1,
                                  !.script = "loading"],
            promise |-> p]

\* loadGoogleMapsApi(): the page afterwards and the promise returned
loadGoogleMapsApi(page) ==
  LET p == Len(page.promises) + 1
  IN  IF page.google
      THEN [page |-> [page EXCEPT !.promises = Append(@, "resolved")], promise |-> p]
      ELSE IF page.memo # 0
      THEN [page |-> page, promise |-> page.memo]
      ELSE IF page.scripts > 0
      THEN [page |-> [page EXCEPT !.memo = p,
                                  !.promises = Append(@, "pending"),
                                  !.listeners = @ \cup {p}],
            promise |-> p]
      ELSE [page |-> [page EXCEPT !.memo = p,
                                  !.promises = Append(@, "pending"),
                                  !.listeners = @ \cup {p},
                                  !.scripts = @ + 1,
                                  !.script = "loading"],
            promise |-> p]

\* generateRouteMap reaches await loadGoogleMapsApi()
CallLoad(c) ==
  /\ gmCall[c].pc # "awaiting"
  /\ Len(gmPage.promises) < MaxCalls
  /\ LET res == loadGoogleMapsApi(gmPage)
     IN  /\ gmPage' = res.page
         /\ gmCall' = [gmCall EXCEPT ![c] = [pc |-> "awaiting", promise |-> res.promise]]
  /\ UNCHANGED offMapsLoader

\* the script's load event: the API is defined, the listeners resolve
ScriptLoads ==
  /\ gmPage.script = "loading"
  /\ gmPage' = [gmPage EXCEPT
                  !.script = "loaded",
                  !.google = TRUE,
                  !.promises = [p \in DOMAIN @ |->
                                  IF p \in gmPage.listeners THEN "resolved" ELSE @[p]]]
  /\ UNCHANGED <<gmCall, offMapsLoader>>

\* the script's error event: the listeners reject
ScriptFails ==
  /\ gmPage.script = "loading"
  /\ gmPage' = [gmPage EXCEPT
                  !.script = "failed",
                  !.promises = [p \in DOMAIN @ |->
                                  IF p \in gmPage.listeners THEN "rejected" ELSE @[p]]]
  /\ UNCHANGED <<gmCall, offMapsLoader>>

\* the caller's await resumes on its settled promise
ResumeCaller(c) ==
  /\ gmCall[c].pc = "awaiting"
  /\ gmPage.promises[gmCall[c].promise] # "pending"
  /\ gmCall' = [gmCall EXCEPT ![c].pc =
                  IF gmPage.promises[gmCall[c].promise] = "resolved"
                  THEN "fulfilled" ELSE "rejected"]
  /\ UNCHANGED <<gmPage, offMapsLoader>>

InitMapsLoader ==
  /\ userLocation = [lat |-> 0, lng |-> 0]
  /\ radiusMeters = SEARCH_RADIUS_HM
  /\ path = << >>
  /\ ipcResult = "none"
  /\ stops = NoStops
  /\ results = << >>
  /\ fnbPc = "idle"
  /\ MapIdle
  /\ ServerIdle
  /\ SjIdle
  /\ AdminIdle
  /\ RoutesIdle
  /\ PutIdle
  /\ SessionsIdle
  /\ LocationIdle
  /\ MapsLoaderIdle

NextMapsLoader ==
  \/ \E c \in Callers : CallLoad(c)
  \/ ScriptLoads
  \/ ScriptFails
  \/ \E c \in Callers : ResumeCaller(c)

SpecMapsLoader == InitMapsLoader /\ [][NextMapsLoader]_vars

\* ------------------------------------------------------------- claims
\* Reference geometry, independent of geolib's formula: the squared distance
\* from c to the segment a-b is within r^2 (vector projection form).
ClosestApproachWithin(c, a, b, r) ==
  LET vx == b.lat - a.lat
      vy == b.lng - a.lng
      wx == c.lat - a.lat
      wy == c.lng - a.lng
      t  == wx * vx + wy * vy
      l2 == vx * vx + vy * vy
      cr == vx * wy - vy * wx
  IN  IF l2 = 0 \/ t <= 0 THEN wx * wx + wy * wy <= r * r
      ELSE IF t >= l2 THEN getDistanceSq(c, b) <= r * r
      ELSE cr * cr <= r * r * l2

\* C1: whenever some path point lies at distance <= r from the center
\* (bound inclusive, r = 0 included), isPathIntersectsCircle returns true.
C1_PointWithinGivesTrue ==
  (ipcResult # "none" /\
   \E i \in 1..Len(path) :
      getDistanceSq(path[i], userLocation) <= radiusMeters * radiusMeters)
  => ipcResult = "true"

\* a point exactly on the circle (and none inside) has been tested
C1_Witness ==
  /\ ipcResult = "true"
  /\ radiusMeters > 0
  /\ \E i \in 1..Len(path) :
        getDistanceSq(path[i], userLocation) = radiusMeters * radiusMeters
  /\ \A i \in 1..Len(path) :
        getDistanceSq(path[i], userLocation) >= radiusMeters * radiusMeters

\* C2: a consecutive pair with both endpoints farther than r whose segment
\* comes within r of the center makes isPathIntersectsCircle return true.
C2_SegmentCrossingGivesTrue ==
  (ipcResult # "none" /\
   \E i \in 1..(Len(path) - 1) :
      /\ getDistanceSq(path[i], userLocation) > radiusMeters * radiusMeters
      /\ getDistanceSq(path[i + 1], userLocation) > radiusMeters * radiusMeters
      /\ ClosestApproachWithin(userLocation, path[i], path[i + 1], radiusMeters))
  => ipcResult = "true"

\* every point of a three-point path is outside, the last segment crosses
C2_Witness ==
  /\ ipcResult = "true"
  /\ radiusMeters > 0
  /\ Len(path) = 3
  /\ \A i \in 1..3 :
        getDistanceSq(path[i], userLocation) > radiusMeters * radiusMeters
  /\ ~ClosestApproachWithin(userLocation, path[1], path[2], radiusMeters)
  /\ ClosestApproachWithin(userLocation, path[2], path[3], radiusMeters)

\* the straight-line path of a period: the coordinates of its ordered stops
StopPath(rows, period) ==
  LET ss == periodStops(rows, period)
  IN  [i \in 1..Len(ss) |-> [lat |-> ss[i].lat, lng |-> ss[i].lng]]

InResults(b) == \E i \in 1..Len(results) : results[i] = b

PeriodMatches(b, period) ==
  /\ Len(StopPath(stops[b], period)) >= 1
  /\ isPathIntersectsCircle(userLocation, StopPath(stops[b], period), radiusMeters)

\* C3: a bus is in the result exactly when the circle-intersection test on
\* the path of one of its non-empty periods is true (so also when only a
\* segment, and no stop, comes within the radius).
C3_MatchedIffPathIntersects ==
  fnbPc = "done" =>
    \A b \in BusIds :
      InResults(b) <=> (PeriodMatches(b, "MORNING") \/ PeriodMatches(b, "EVENING"))

StopWithin(b) ==
  \E s \in stops[b] : getDistanceSq(userLocation, s) <= radiusMeters * radiusMeters

\* C4: a bus with a stop of either period at the center, or within the
\* radius of it, is in the result, for every positive radius.
C4_StopWithinIsMatched ==
  (fnbPc = "done" /\ radiusMeters > 0) =>
    \A b \in BusIds : StopWithin(b) => InResults(b)

\* a bus whose only stop within the radius is an evening stop at the center
C4_Witness ==
  /\ fnbPc = "done"
  /\ \E b \in BusIds :
        /\ InResults(b)
        /\ \E s \in stops[b] :
              s.period = "EVENING" /\ getDistanceSq(userLocation, s) = 0
        /\ \A s \in stops[b] :
              s.period = "MORNING" =>
                getDistanceSq(userLocation, s) > radiusMeters * radiusMeters

AllFar(b) ==
  \A period \in Periods :
    LET p == StopPath(stops[b], period)
    IN  /\ \A i \in 1..Len(p) :
              getDistanceSq(p[i], userLocation) > radiusMeters * radiusMeters
        /\ \A i \in 1..(Len(p) - 1) :
              ~ClosestApproachWithin(userLocation, p[i], p[i + 1], radiusMeters)

\* C5: a bus all of whose stops and straight segments, in both periods, are
\* farther than the radius from the center is absent from the result.
C5_FarBusNotMatched ==
  fnbPc = "done" => \A b \in BusIds : AllFar(b) => ~InResults(b)

\* a bus with a two-stop run that stays outside the circle, and is absent
C5_Witness ==
  /\ fnbPc = "done"
  /\ \E b \in BusIds :
        /\ AllFar(b)
        /\ \E period \in Periods : Len(StopPath(stops[b], period)) = 2
        /\ ~InResults(b)

\* the directions provider failed in one of the ways the claim lists
ProviderFailed == grmProvider \in {"not_ok", "no_result", "api_failed"}

PathIsStopList ==
  /\ Len(grmPolyline) = Len(grmStops)
  /\ Len(grmStops) >= 1
  /\ grmPolyline[1] = parseCoords(grmStops[1])
  /\ grmPolyline[Len(grmPolyline)] = parseCoords(grmStops[Len(grmStops)])
  /\ grmPolyline = stopCoords(grmStops)

PathDrawn == grmShown \in {"directions", "polyline"}

SameKey(a, b) == normalizeName(a) = normalizeName(b)

RECURSIVE SumCalls(_)
SumCalls(S) ==
  IF S = {} THEN 0
  ELSE LET n == CHOOSE x \in S : TRUE
       IN  upstreamCalls[n] + SumCalls(S \ {n})

\* the geocoder calls issued so far for names with the key of tok
CallsForKey(tok) == SumCalls({n \in LocationTokens : SameKey(n, tok)})

\* C8: every availability request eventually gets a response, even when an
\* outbound provider call never returns.
C8_EventuallyResponds ==
  \A r \in Requests : (req[r].pc # "idle") ~> (req[r].pc = "responded")

\* C9: concurrent geocode lookups of names with the same normalized key
\* issue exactly one upstream call between them.
C9_OneUpstreamCallPerKey ==
  \A r1, r2 \in Requests :
    (r1 # r2 /\ req[r1].pc = "geocoding" /\ req[r2].pc = "geocoding"
       /\ SameKey(req[r1].location, req[r2].location))
    => CallsForKey(req[r1].location) = 1

\* C10: a lookup that follows a failed geocoder call for the same key
\* issues a new upstream call, and gets the coordinate when the provider
\* answers it.
C10_FailureNotCached ==
  \A r \in Requests :
    req[r].retry =>
      /\ req[r].called
      /\ CallsForKey(req[r].location) >= 2
      /\ req[r].geo = "ok" => req[r].userLocation = GeoTruth(req[r].location)

\* a lookup after a failure was sent upstream and answered
C10_Witness ==
  \E r \in Requests :
    /\ req[r].retry
    /\ req[r].called
    /\ req[r].geo = "ok"
    /\ req[r].userLocation = GeoTruth(req[r].location)
    /\ \E q \in Requests : q # r /\ req[q].geo = "failed" /\ req[q].status = 500

\* The tokens of the form <number>,<number>, built from the grammar and not
\* by either server's matcher: optional blanks around the token and after
\* the comma, an optional minus sign and an optional decimal part per number.
Blanks(n) == [i \in 1..n |-> " "]
NumberForms ==
  {[text |-> sign \o <<d>> \o frac,
    value |-> IF sign = << >> THEN DigitsValue[d] ELSE -DigitsValue[d]] :
     sign \in {<< >>, <<"-">>}, d \in DOMAIN DigitsValue,
     frac \in {<< >>, <<".">>, <<".", "0">>}}
CoordinateForms ==
  {[text |-> Blanks(w[1]) \o a.text \o <<",">> \o Blanks(w[2]) \o b.text \o Blanks(w[3]),
    loc |-> [lat |-> a.value, lng |-> b.value]] :
     a \in NumberForms, b \in NumberForms, w \in (0..1) \X (0..1) \X (0..1)}
CoordinateTokens == {tok \in LocationTokens : \E f \in CoordinateForms : f.text = tok}
CoordinateOf(tok) == (CHOOSE f \in CoordinateForms : f.text = tok).loc

\* part_001: a request that passed the email checks
DirectParse_part001(r) ==
  (req[r].pc # "idle" /\ req[r].location # << >> /\ validateEmail(req[r].email)) =>
     /\ req[r].location \in CoordinateTokens <=> ~req[r].routed
     /\ req[r].location \in CoordinateTokens =>
          req[r].userLocation = CoordinateOf(req[r].location)

\* server.js: a request that passed the presence check
DirectParse_serverjs(r) ==
  (sjReq[r].pc # "idle" /\ sjReq[r].location # << >> /\ sjReq[r].email # << >>) =>
     /\ sjReq[r].location \in CoordinateTokens <=> sjReq[r].parsed
     /\ sjReq[r].location \in CoordinateTokens =>
          sjReq[r].userCoords = CoordinateOf(sjReq[r].location)

\* C11: a location is parsed directly as {lat, lng}, without the geocoder,
\* exactly when it has the form <number>,<number> (blanks around it and
\* after the comma, sign and decimal part optional); in both servers.
C11_DirectParseExactlyOnForm ==
  \A r \in Requests : DirectParse_part001(r) /\ DirectParse_serverjs(r)

\* the location of request r was handed to geocodeLocation, which threw for
\* the missing key or rejected on the provider's answer
ResolutionFailed(r) ==
  /\ req[r].pc = "responded"
  /\ req[r].routed
  /\ ~req[r].called \/ req[r].geo = "failed"

\* request r failed after its location had been resolved
OtherFailure(r) ==
  /\ req[r].pc = "responded"
  /\ req[r].status >= 500
  /\ ~req[r].routed \/ req[r].geo = "ok"

\* C12: a location that is neither a coordinate pair nor geocodable (no
\* credential, or no result from the provider) is answered with an error of
\* its own, which differs from the answer to every other server failure.
C12_ResolutionErrorDistinct ==
  \A r, q \in Requests :
    (ResolutionFailed(r) /\ OtherFailure(q)) =>
       <<req[r].status, req[r].message>> # <<req[q].status, req[q].message>>

\* C13: a request whose location resolved to a valid coordinate and whose
\* matching is done (it awaits the write of the availability log) is
\* answered with a successful response, whatever becomes of the log write;
\* in both servers.
C13_OnlyResolutionAborts ==
  [][\A r \in Requests :
        /\ (req[r].pc = "logging" /\ req'[r].pc = "responded")
              => req'[r].status = 200
        /\ (sjReq[r].pc = "logging" /\ sjReq'[r].pc = "responded")
              => sjReq'[r].status = 200]_vars

\* a bus whose stop records are incomplete: it has stops, but in one period
\* none, or a single one, so that no path can be built for that period
IncompleteBus(b) ==
  /\ stops[b] # {}
  /\ \E period \in Periods : Len(periodStops(stops[b], period)) < 2

\* the result of the same call on the store without the rows of bus x
ResultsWithout(x) ==
  findNearbyBuses([stops EXCEPT ![x] = {}], userLocation, radiusMeters)

RequestFollowsStops(rq, ss, conv(_)) ==
  /\ rq.origin = conv(ss[1])
  /\ rq.destination = conv(ss[Len(ss)])
  /\ Len(rq.waypoints) = Len(ss) - 2
  /\ \A i \in 2..(Len(ss) - 1) : rq.waypoints[i - 1] = conv(ss[i])
  /\ ~rq.optimizeWaypoints
  /\ ~rq.provideRouteAlternatives

StopAsCoord(st) == [lat |-> st[1], lng |-> st[2]]
StopAsLatLng(st) == [null |-> FALSE, lat |-> st[1], lng |-> st[2]]

MatchDone(r) ==
  req[r].pc = "logging" \/ (req[r].pc = "responded" /\ req[r].status = 200)

\* the buses with a stop row within the search radius of loc, from the store alone
ExpectedMatches(loc) ==
  SelectSeq(BusOrder,
    LAMBDA b : \E s \in stops[b] :
       getDistanceSq(loc, s) <= SEARCH_RADIUS_HM * SEARCH_RADIUS_HM)

\* C16: the match list of a request is a function of its location, the
\* radius and the store only, whatever other requests are in flight or
\* have completed; nothing of another request's result shows in it.
C16_RequestsIndependent ==
  \A r \in Requests :
    MatchDone(r) => req[r].nearby = ExpectedMatches(req[r].userLocation)

\* two interleaved requests, one matched by a bus and one by none
C16_Witness ==
  \E r, q \in Requests :
    /\ r # q
    /\ req[r].pc = "responded" /\ req[r].status = 200
    /\ req[q].pc = "logging"
    /\ req[r].nearby # << >>
    /\ req[q].nearby = << >>
    /\ req[r].userLocation # req[q].userLocation

\* request r came without a token, or with one that was not signed by the
\* server, or with one whose expiry had passed when it arrived
InvalidToken(r) ==
  \/ areq[r].token = NoToken
  \/ areq[r].token.sig # "good"
  \/ areq[r].token \notin issued
  \/ areq[r].at >= areq[r].token.exp

\* C17: a request to an admin-protected endpoint without a token, or with
\* an invalid or expired one, is answered 401 and its handler never runs
\* (no store read or write is made for it); the handler runs only for a
\* token that verified.
C17_GuardBeforeHandler ==
  \A r \in AdminRequests :
    areq[r].pc # "idle" =>
      /\ InvalidToken(r) =>
           /\ areq[r].pc = "responded" /\ areq[r].status = 401
           /\ ~areq[r].handlerRan
           /\ areq[r].dbOps = 0 /\ areq[r].created = ""
      /\ areq[r].handlerRan => ~InvalidToken(r)

\* an expired token was turned away and a fresh one let the handler run
C17_Witness ==
  \E r, q \in AdminRequests :
    /\ areq[r].status = 401
    /\ areq[r].via = "bearer"
    /\ areq[r].token \in issued
    /\ areq[r].at >= areq[r].token.exp
    /\ areq[q].handlerRan
    /\ areq[q].pc = "responded"
    /\ areq[q].dbOps = 1

\* the caller of request r is the superadmin: the env admin, logged in
IsSuperadmin(r) == adminEnv /\ areq[r].adminEmail = MAIN_ADMIN

\* C18: listing pending admin requests and approving or rejecting one
\* succeed only for a caller authenticated as superadmin, so no Admin row
\* is created by another caller.
C18_ApprovalSuperadminOnly ==
  \A r \in AdminRequests :
    (areq[r].pc = "responded" /\ areq[r].status = 200
       /\ areq[r].endpoint \in {"GET /admin/requests",
                                "POST /admin/requests/:email/approve",
                                "POST /admin/requests/:email/reject"})
    => IsSuperadmin(r)

\* request r was answered after its location had resolved to a valid
\* coordinate: it reached the matching step
ReachedMatching(r) ==
  /\ req[r].pc = "responded"
  /\ req[r].status # 400
  /\ ~req[r].routed \/ req[r].geo = "ok"

SjReachedMatching(r) == sjReq[r].pc = "responded" /\ sjReq[r].status # 400

C20_ShortPaths ==
  ipcResult # "none" =>
    /\ Len(path) = 0 => ipcResult = "false"
    /\ Len(path) = 1 =>
         (ipcResult = "true" <=> PointWithin(path[1], userLocation, radiusMeters))

\* a single point away from the center, inside the radius, was accepted
C20_Witness ==
  /\ Len(path) = 1
  /\ path[1] # userLocation
  /\ ipcResult = "true"

\* an empty path was rejected
C20_WitnessEmpty == Len(path) = 0 /\ ipcResult = "false"

\* the path without its point at position i
WithoutPoint(p, i) == SubSeq(p, 1, i - 1) \o SubSeq(p, i + 1, Len(p))

\* C21: a segment whose two endpoints coincide counts as the point alone: a
\* path made of one point repeated gets the result of the point test on that
\* point, and in any path a repeated point can be dropped without changing
\* the result.
C21_DegenerateSegmentIsPoint ==
  ipcResult # "none" =>
    /\ (Len(path) >= 2 /\ \A i \in 1..Len(path) : path[i] = path[1]) =>
         (ipcResult = "true" <=> PointWithin(path[1], userLocation, radiusMeters))
    /\ \A i \in 1..(Len(path) - 1) :
         path[i] = path[i + 1] =>
           (ipcResult = "true" <=>
              isPathIntersectsCircle(userLocation, WithoutPoint(path, i + 1), radiusMeters))

\* a repeated point outside the radius was rejected
C21_Witness ==
  /\ Len(path) = 2
  /\ path[1] = path[2]
  /\ ~PointWithin(path[1], userLocation, radiusMeters)
  /\ ipcResult = "false"

\* a repeated point inside the radius, away from the center, was accepted
C21_WitnessInside ==
  /\ Len(path) = 2
  /\ path[1] = path[2]
  /\ path[1] # userLocation
  /\ ipcResult = "true"

\* the number of bus b's stops, of either period, within the radius
StopsWithinCount(b) ==
  Cardinality({s \in stops[b] :
                 getDistanceSq(userLocation, s) <= radiusMeters * radiusMeters})

\* C22: every bus in the match result carries nearbyStopCount, the number of
\* its individual stops whose direct distance to the user location is within
\* the radius.
C22_NearbyStopCount ==
  fnbPc = "done" =>
    \A i \in 1..Len(results) :
      LET e == resultEntry(results[i])
      IN  /\ "nearbyStopCount" \in DOMAIN e
          /\ e.nearbyStopCount = StopsWithinCount(results[i])

\* the ways to list the rows of a period in ascending order: each f lists
\* every position of such a row in rows once
AscendingListings(rows, period) ==
  LET idx == {i \in 1..Len(rows) : rows[i].period = period}
      n == Cardinality(idx)
  IN  {f \in [1..n -> idx] :
         /\ \A i, j \in 1..n : i # j => f[i] # f[j]
         /\ \A i \in 1..(n - 1) : rows[f[i]].order <= rows[f[i + 1]].order}

\* the route lists exactly the period's stops in ascending order, from is the
\* first one's name and to the last one's, "N/A" for a period without stops
RouteAsClaimed(route, rows, period) ==
  \E f \in AscendingListings(rows, period) :
    LET n == Len(f)
    IN  /\ Len(route.stops) = n
        /\ \A i \in 1..n : route.stops[i] = rows[f[i]].name
        /\ route.from = IF n = 0 THEN "N/A" ELSE rows[f[1]].name
        /\ route.to = IF n = 0 THEN "N/A" ELSE rows[f[n]].name

\* the same, with "N/A" also standing for an empty name
RouteWithPlaceholder(route, rows, period) ==
  \E f \in AscendingListings(rows, period) :
    LET n == Len(f)
        shown(name) == IF name = "" THEN "N/A" ELSE name
    IN  /\ Len(route.stops) = n
        /\ \A i \in 1..n : route.stops[i] = rows[f[i]].name
        /\ route.from = IF n = 0 THEN "N/A" ELSE shown(rows[f[1]].name)
        /\ route.to = IF n = 0 THEN "N/A" ELSE shown(rows[f[n]].name)

\* C23 as claimed: the MORNING and EVENING lists of a route hold exactly the
\* bus's stops of that period in ascending order; from is the name of the
\* lowest-order stop, to the name of the highest-order stop, and both are
\* "N/A" when the period has no stops.
C23_OrderedRoutes_Claimed ==
  (rtPc = "responded" /\ rtRoute.status = 200) =>
    /\ RouteAsClaimed(rtRoute.morningRoute, rtStore, "MORNING")
    /\ RouteAsClaimed(rtRoute.eveningRoute, rtStore, "EVENING")

\* C23 as amended: the lists hold exactly the period's stops in ascending
\* order; from and to are the names of the lowest-order and highest-order
\* stop, and "N/A" when the period has no stops or that stop's name is empty.
C23_OrderedRoutes ==
  (rtPc = "responded" /\ rtRoute.status = 200) =>
    /\ RouteWithPlaceholder(rtRoute.morningRoute, rtStore, "MORNING")
    /\ RouteWithPlaceholder(rtRoute.eveningRoute, rtStore, "EVENING")

\* a morning run stored out of order was listed in order, and the evening
\* run without stops got "N/A"
C23_Witness ==
  /\ rtPc = "responded"
  /\ rtRoute.status = 200
  /\ Len(rtStore) = 2
  /\ rtStore[1].period = "MORNING" /\ rtStore[2].period = "MORNING"
  /\ rtStore[1].order > rtStore[2].order
  /\ rtStore[1].name = "Guntur" /\ rtStore[2].name = "Benz Circle"
  /\ rtRoute.morningRoute.from = "Benz Circle"
  /\ rtRoute.morningRoute.to = "Guntur"
  /\ rtRoute.eveningRoute.from = "N/A"

\* the lists findNearbyBuses matches on are the period's stops, ascending
C23_MatchingListsOrdered ==
  \A b \in BusIds : \A period \in Periods :
    LET l == periodStops(stops[b], period)
    IN  /\ {l[i] : i \in 1..Len(l)} = {s \in stops[b] : s.period = period}
        /\ Len(l) = Cardinality({s \in stops[b] : s.period = period})
        /\ \A i \in 1..(Len(l) - 1) : l[i].order <= l[i + 1].order

\* C24: the step that rejects an availability request with 400 leaves the
\* store as it was, the request has no log row and no match list, and it
\* does nothing afterwards; a location of the form <number>,<number> is
\* parsed to its two numbers whatever their range, and rejected with 400
\* afterwards when they are outside lat [-90,90] / lng [-180,180].
C24_RejectedLeavesStore ==
  [][\A r \in Requests :
        /\ (req[r].pc # "responded" /\ req'[r].pc = "responded" /\ req'[r].status = 400) =>
             /\ availabilityLog' = availabilityLog
             /\ stops' = stops
             /\ req[r].pc \in {"idle", "geocoding"}
             /\ req'[r].nearby = << >>
             /\ req'[r].logged = 0
        /\ req[r].status = 400 => req'[r] = req[r]
        /\ (req'[r].pc # "idle" /\ validateEmail(req'[r].email)
              /\ req'[r].location \in CoordinateTokens) =>
             /\ req'[r].userLocation = CoordinateOf(req'[r].location)
             /\ ~validateCoordinates(CoordinateOf(req'[r].location)) =>
                  (req'[r].pc = "responded" /\ req'[r].status = 400)
    ]_vars

\* a request was rejected for a latitude of 91 that direct parsing had
\* accepted, after another request had been logged
C24_Witness ==
  \E r, q \in Requests :
    /\ req[r].pc = "responded"
    /\ req[r].status = 400
    /\ req[r].message = "Invalid coordinates"
    /\ req[r].userLocation.lat = 91
    /\ req[q].logged = 1
    /\ Len(availabilityLog) = 1

\* no value occurs twice in the sequence
NoRepeats(q) == \A i, j \in 1..Len(q) : i # j => q[i] # q[j]

\* C25: the match result holds each bus at most once, also when both its
\* morning and its evening run match and when several of its stops are
\* within the radius; in the matcher alone and in both servers' requests.
C25_EachBusOnce ==
  /\ NoRepeats(results)
  /\ \A r \in Requests :
       /\ NoRepeats(req[r].nearby)
       /\ NoRepeats(sjReq[r].buses)

\* a matched bus with a morning and an evening stop within the radius
C25_Witness ==
  /\ fnbPc = "done"
  /\ \E b \in BusIds :
       /\ InResults(b)
       /\ \E s, t \in stops[b] :
            /\ s.period = "MORNING" /\ t.period = "EVENING"
            /\ getDistanceSq(userLocation, s) <= radiusMeters * radiusMeters
            /\ getDistanceSq(userLocation, t) <= radiusMeters * radiusMeters

\* C26: once every stop-replacement request on the bus has completed, the
\* bus's stored stops are exactly those of one of the requests: in each
\* period the order values are unique and are 1..n in payload order, and no
\* stop of another request is left.
C26_StopsOfOneRequest ==
  (\A r \in PutRequests : putReq[r].pc = "responded") =>
    /\ \E r \in PutRequests :
         LET d == createData(r, putReq[r].morning, putReq[r].evening)
         IN  putStore = {d[i] : i \in 1..Len(d)}
    /\ \A s, t \in putStore :
         (s.period = t.period /\ s.order = t.order) => s = t

\* C27: verifyAdminToken accepts a token only if createAdminToken made it
\* and its one-hour expiry has not passed at the time of the call; a token
\* once rejected as expired has no session entry any more and no later call
\* accepts it.
C27_SessionTokenValidity ==
  /\ (sessLast.called /\ sessLast.accepted) =>
       /\ sessLast.token \in 1..sessCount
       /\ \E e \in adminSessions :
            /\ e.token = sessLast.token
            /\ sessLast.at <= e.expires
       /\ sessLast.token \notin sessExpired
  /\ \A token \in sessExpired : sessionOf(adminSessions, token) = {}

\* a token was accepted, later rejected as expired, and rejected again
\* after the clock had been set back to a time before its expiry
C27_Witness ==
  /\ sessLast.called
  /\ ~sessLast.accepted
  /\ sessLast.token \in sessExpired
  /\ sessLast.token \in 1..sessCount
  /\ sessLast.at <= SESSION_TTL_H

\* C28: after one click that obtains a position the form is submitted at
\* most once, however the watch callbacks and the 15 s timer interleave; the
\* location submitted is a fix received, none received is more accurate, and
\* the accuracy figure of bestFix never goes up.
C28_SubmittedOnceWithBestFix ==
  [][/\ submits' <= 1
     /\ submits' = 1 =>
          /\ sentFix' \in received'
          /\ \A f \in received' : sentFix'.accuracy <= f.accuracy
     /\ bestFix # NoFix => bestFix'.accuracy <= bestFix.accuracy
    ]_vars

\* the watch reached the target accuracy with a later fix and submitted it,
\* and the timer has fired after that
C28_Witness ==
  /\ locPc = "done"
  /\ submits = 1
  /\ ~timer
  /\ sentFix.id > 1
  /\ sentFix.accuracy <= targetAccuracy
  /\ \E f \in received : f.accuracy > improveThreshold

C29_WitnessNeverAccurate ==
  /\ locPc = "done"
  /\ Cardinality(received) = MaxFixes
  /\ \A f \in received : f.accuracy > targetAccuracy
  /\ submits = 1
  /\ ~btnDisabled

\* C30: however many calls of loadGoogleMapsApi overlap, at most one Maps
\* script element is in the page, and once that script has loaded or failed
\* no caller is left with a pending promise: after the load the promise is
\* resolved, after the failure it is rejected.
C30_OneScriptAllSettle ==
  /\ gmPage.scripts <= 1
  /\ \A c \in Callers :
       gmCall[c].pc = "awaiting" =>
         /\ gmPage.script = "loaded" => gmPage.promises[gmCall[c].promise] = "resolved"
         /\ gmPage.script = "failed" => gmPage.promises[gmCall[c].promise] = "rejected"
  /\ \A c \in Callers :
       /\ gmCall[c].pc = "fulfilled" => gmPage.script = "loaded"
       /\ gmCall[c].pc = "rejected" => gmPage.script = "failed"

\* two callers await the same promise of the one script, which has loaded
C30_Witness ==
  /\ gmPage.scripts = 1
  /\ gmPage.script = "loaded"
  /\ gmCall[1].pc = "awaiting"
  /\ gmCall[2].pc = "awaiting"
  /\ gmCall[1].promise = gmCall[2].promise
  /\ gmPage.promises[gmCall[1].promise] = "resolved"

\* a call made after the script has failed gets the rejected promise
C30_WitnessAfterFailure ==
  /\ gmPage.script = "failed"
  /\ gmCall[1].pc = "rejected"
  /\ gmCall[2].pc = "awaiting"
  /\ gmPage.promises[gmCall[2].promise] = "rejected"

====
